---- MODULE Spec2Model ----
(***************************************************************************)
(* Temporal sequence sets (temporals.c): the builder, the timestamp        *)
(* locator, the intersection / synchronization merge-joins and the         *)
(* intersects predicates, for a value kind with stepwise interpolation.    *)
(*                                                                         *)
(* A period is [lower, upper, lower_inc, upper_inc]; a sequence is         *)
(* [period, insts] with insts a list of [t, value] (seq->count is          *)
(* Len(insts)); a sequence set is [count, totalcount, seqs, bbox] with     *)
(* bbox the trailing bounding box [xmin, xmax, tmin, tmax].  C arrays are  *)
(* 0-based, TLA+ sequences 1-based: C index i is element i + 1.            *)
(***************************************************************************)
EXTENDS Integers, Sequences, FiniteSets

\* Timestamps are 0 .. MaxT.
MaxT == 2
\* Largest number of sequences of an input array / of the first operand.
MaxSeqs == 3
\* Largest number of sequences of the second operand of a binary operation.
MaxSeqsB == 2

Times == 0 .. MaxT
Values == {"a", "b"}

Min(a, b) == IF a < b THEN a ELSE b
Max(a, b) == IF a > b THEN a ELSE b

(***************************************************************************)
(* Null values (C NULL pointers / unset output parameters).                *)
(***************************************************************************)
NoPeriod == [lower |-> 0, upper |-> 0, lower_inc |-> FALSE, upper_inc |-> FALSE]
NoInst == [t |-> -1, value |-> "a"]
NoSeq == [period |-> NoPeriod, insts |-> <<>>]
NoBox == [xmin |-> "a", xmax |-> "a", tmin |-> 0, tmax |-> -1]
NoTS == [count |-> 0, totalcount |-> 0, seqs |-> <<>>, bbox |-> NoBox]

(***************************************************************************)
(* Periods (period.c, timeops.c): collaborators of temporals.c.            *)
(***************************************************************************)
timestamp_cmp_internal(a, b) == IF a < b THEN -1 ELSE IF a > b THEN 1 ELSE 0

period_set(lower, upper, lower_inc, upper_inc) ==
    [lower |-> lower, upper |-> upper, lower_inc |-> lower_inc, upper_inc |-> upper_inc]

contains_period_timestamp_internal(p, t) ==
    LET cmpl == timestamp_cmp_internal(p.lower, t)
        cmpu == timestamp_cmp_internal(p.upper, t)
    IN  /\ ~(cmpl > 0)
        /\ ~(cmpl = 0 /\ ~p.lower_inc)
        /\ ~(cmpu < 0)
        /\ ~(cmpu = 0 /\ ~p.upper_inc)

overlaps_period_period_internal(p1, p2) ==
    LET cmp1 == timestamp_cmp_internal(p1.lower, p2.upper)
        cmp2 == timestamp_cmp_internal(p2.lower, p1.upper)
    IN  /\ (cmp1 < 0 \/ (cmp1 = 0 /\ p1.lower_inc /\ p2.upper_inc))
        /\ (cmp2 < 0 \/ (cmp2 = 0 /\ p2.lower_inc /\ p1.upper_inc))

\* p1 contains p2
contains_period_period_internal(p1, p2) ==
    LET c1 == timestamp_cmp_internal(p1.lower, p2.lower)
        c2 == timestamp_cmp_internal(p1.upper, p2.upper)
    IN  /\ (c1 < 0 \/ (c1 = 0 /\ (p1.lower_inc \/ ~p2.lower_inc)))
        /\ (c2 > 0 \/ (c2 = 0 /\ (p1.upper_inc \/ ~p2.upper_inc)))

\* The B-tree order of periods: by lower bound (an inclusive lower bound
\* first), then by upper bound (an exclusive upper bound first).
period_cmp_internal(p1, p2) ==
    LET c1 == timestamp_cmp_internal(p1.lower, p2.lower)
        c2 == timestamp_cmp_internal(p1.upper, p2.upper)
    IN  IF c1 # 0 THEN c1
        ELSE IF p1.lower_inc # p2.lower_inc THEN (IF p1.lower_inc THEN -1 ELSE 1)
        ELSE IF c2 # 0 THEN c2
        ELSE IF p1.upper_inc # p2.upper_inc THEN (IF p1.upper_inc THEN 1 ELSE -1)
        ELSE 0

period_eq_internal(p1, p2) == period_cmp_internal(p1, p2) = 0

period_lt_internal(p1, p2) == period_cmp_internal(p1, p2) < 0

\* The common part of two periods, NoPeriod when they do not overlap.
intersection_period_period_internal(p1, p2) ==
    IF ~overlaps_period_period_internal(p1, p2) THEN NoPeriod
    ELSE LET lower == Max(p1.lower, p2.lower)
             upper == Min(p1.upper, p2.upper)
             lower_inc == IF p1.lower = p2.lower THEN p1.lower_inc /\ p2.lower_inc
                          ELSE IF lower = p1.lower THEN p1.lower_inc ELSE p2.lower_inc
             upper_inc == IF p1.upper = p2.upper THEN p1.upper_inc /\ p2.upper_inc
                          ELSE IF upper = p1.upper THEN p1.upper_inc ELSE p2.upper_inc
         IN  period_set(lower, upper, lower_inc, upper_inc)

(***************************************************************************)
(* Dense time: timestamp t is the point 2t, the open interval between t    *)
(* and t + 1 is 2t + 1.  Cover(p) is the set of instants of period p.      *)
(***************************************************************************)
Cover(p) ==
    {2 * t : t \in {x \in Times : /\ p.lower <= x /\ x <= p.upper
                                  /\ (x = p.lower => p.lower_inc)
                                  /\ (x = p.upper => p.upper_inc)}}
    \cup {2 * t + 1 : t \in {x \in Times : p.lower <= x /\ x + 1 <= p.upper}}

\* The time domain of a list of sequences / of a sequence set.
SeqsTime(seqs) == UNION {Cover(seqs[i].period) : i \in DOMAIN seqs}
Time(ts) == SeqsTime(ts.seqs)

(***************************************************************************)
(* Sequences and instants (temporalseq.c, temporalinst.c, temporali.c):    *)
(* collaborators of temporals.c, stepwise interpolation.                   *)
(***************************************************************************)
Last(s) == s[Len(s)]

temporalinst_make(value, t) == [t |-> t, value |-> value]

\* A constant sequence over period p: one instant per bound.
temporalseq_from_base_internal(value, p) ==
    [period |-> p,
     insts |-> IF p.lower = p.upper THEN <<temporalinst_make(value, p.lower)>>
               ELSE <<temporalinst_make(value, p.lower), temporalinst_make(value, p.upper)>>]

\* The value a stepwise sequence takes at t (t within its bounds): the value
\* of the last instant at or before t.
temporalseq_value_at_timestamp(seq, t) ==
    Last(SelectSeq(seq.insts, LAMBDA i : i.t <= t)).value

temporalseq_at_timestamp(seq, t) ==
    IF ~contains_period_timestamp_internal(seq.period, t) THEN NoInst
    ELSE temporalinst_make(temporalseq_value_at_timestamp(seq, t), t)

\* The sequence restricted to period p, NoSeq when they do not overlap.  With
\* an exclusive upper bound the last instant repeats the previous value.
temporalseq_at_period(seq, p) ==
    LET inter == intersection_period_period_internal(seq.period, p)
    IN  IF inter = NoPeriod THEN NoSeq
        ELSE IF inter.lower = inter.upper
        THEN [period |-> inter,
              insts |-> <<temporalinst_make(
                            temporalseq_value_at_timestamp(seq, inter.lower), inter.lower)>>]
        ELSE LET head == <<temporalinst_make(
                             temporalseq_value_at_timestamp(seq, inter.lower), inter.lower)>>
                         \o SelectSeq(seq.insts,
                                LAMBDA i : inter.lower < i.t /\ i.t < inter.upper)
                 lastv == IF inter.upper_inc
                          THEN temporalseq_value_at_timestamp(seq, inter.upper)
                          ELSE Last(head).value
             IN  [period |-> inter,
                  insts |-> Append(head, temporalinst_make(lastv, inter.upper))]

\* Pairwise intersection: both sequences restricted to their common period.
intersection_temporalseq_temporalseq(seq1, seq2) ==
    LET inter == intersection_period_period_internal(seq1.period, seq2.period)
    IN  IF inter = NoPeriod
        THEN [ret |-> FALSE, inter1 |-> NoSeq, inter2 |-> NoSeq]
        ELSE [ret |-> TRUE,
              inter1 |-> temporalseq_at_period(seq1, inter),
              inter2 |-> temporalseq_at_period(seq2, inter)]

\* The sequence over period inter (inside its own period) with an instant at
\* every timestamp of stamps.
SyncInsts(seq, inter, stamps) ==
    LET F[k \in 0 .. MaxT + 1] ==
            IF k > MaxT THEN <<>>
            ELSE IF k \in stamps /\ inter.lower <= k /\ k <= inter.upper
            THEN <<temporalinst_make(
                     IF k = inter.upper /\ ~inter.upper_inc /\ inter.lower < inter.upper
                     THEN temporalseq_value_at_timestamp(seq, k - 1)
                     ELSE temporalseq_value_at_timestamp(seq, k), k)>> \o F[k + 1]
            ELSE F[k + 1]
    IN  [period |-> inter, insts |-> F[0]]

\* Pairwise synchronization: as the intersection, both outputs carrying the
\* same timestamps (stepwise interpolation has no crossings to add).
synchronize_temporalseq_temporalseq(seq1, seq2, crossings) ==
    LET inter == intersection_period_period_internal(seq1.period, seq2.period)
        stamps == {seq1.insts[i].t : i \in DOMAIN seq1.insts}
                  \cup {seq2.insts[i].t : i \in DOMAIN seq2.insts}
                  \cup {inter.lower, inter.upper}
    IN  IF inter = NoPeriod
        THEN [ret |-> FALSE, sync1 |-> NoSeq, sync2 |-> NoSeq]
        ELSE [ret |-> TRUE,
              sync1 |-> SyncInsts(seq1, inter, stamps),
              sync2 |-> SyncInsts(seq2, inter, stamps)]

\* Two sequences are merged when they are time-adjacent and the tail value of
\* the first equals the head value of the second.
Mergeable(seq1, seq2) ==
    /\ seq1.period.upper = seq2.period.lower
    /\ (seq1.period.upper_inc \/ seq2.period.lower_inc)
    /\ Last(seq1.insts).value = seq2.insts[1].value

temporalseq_join(seq1, seq2) ==
    [period |-> period_set(seq1.period.lower, seq2.period.upper,
                           seq1.period.lower_inc, seq2.period.upper_inc),
     insts |-> seq1.insts \o Tail(seq2.insts)]

\* One left-to-right pass: seq1 is the sequence to which the next ones are
\* joined while they are mergeable.
temporalseqarr_normalize(sequences) ==
    LET RECURSIVE Pass(_, _)
        Pass(i, seq1) ==
            IF i > Len(sequences) THEN <<seq1>>
            ELSE IF Mergeable(seq1, sequences[i])
            THEN Pass(i + 1, temporalseq_join(seq1, sequences[i]))
            ELSE <<seq1>> \o Pass(i + 1, sequences[i])
    IN  Pass(2, sequences[1])

\* The validity test of temporalseq_append_instant: the appended instant
\* comes after the last one, else an error is raised.
ensure_increasing_timestamps(inst1, inst2) == inst1.t < inst2.t

\* The sequence extended by one instant after its last one; its upper bound
\* becomes the instant's timestamp, inclusive.
temporalseq_append_instant(seq, inst) ==
    [period |-> period_set(seq.period.lower, inst.t, seq.period.lower_inc, TRUE),
     insts |-> Append(seq.insts, inst)]

\* The order of the base type: "a" < "b".
datum_lt(l, r) == l = "a" /\ r = "b"

datum_min(l, r) == IF datum_lt(l, r) THEN l ELSE r

datum_max(l, r) == IF datum_lt(l, r) THEN r ELSE l

\* The bounding box of one instant: its value and its timestamp.
temporalinst_make_bbox(inst) ==
    [xmin |-> inst.value, xmax |-> inst.value, tmin |-> inst.t, tmax |-> inst.t]

\* box1 enlarged to include box2.
temporal_bbox_expand(box1, box2) ==
    [xmin |-> datum_min(box1.xmin, box2.xmin),
     xmax |-> datum_max(box1.xmax, box2.xmax),
     tmin |-> Min(box1.tmin, box2.tmin),
     tmax |-> Max(box1.tmax, box2.tmax)]

\* The bounding box of a sequence: the box of its first instant expanded
\* with the box of every other instant.
temporalseq_make_bbox(seq) ==
    LET F[k \in 1 .. Len(seq.insts)] ==
            IF k = 1 THEN temporalinst_make_bbox(seq.insts[1])
            ELSE temporal_bbox_expand(F[k - 1], temporalinst_make_bbox(seq.insts[k]))
    IN  F[Len(seq.insts)]

\* The bounding box of an array of sequences: the box of the first sequence
\* expanded with the box of every other sequence.
temporals_make_bbox(sequences) ==
    LET F[k \in 1 .. Len(sequences)] ==
            IF k = 1 THEN temporalseq_make_bbox(sequences[1])
            ELSE temporal_bbox_expand(F[k - 1], temporalseq_make_bbox(sequences[k]))
    IN  F[Len(sequences)]

\* The fragments of a sequence outside timestamp t: the sequence itself when
\* it does not contain t, nothing for an instantaneous sequence at t, else
\* the part before t and the part after t that exist, both exclusive at t.
temporalseq_minus_timestamp1(seq, t) ==
    IF ~contains_period_timestamp_internal(seq.period, t) THEN <<seq>>
    ELSE IF Len(seq.insts) = 1 THEN <<>>
    ELSE (IF seq.period.lower < t
          THEN <<temporalseq_at_period(seq,
                    period_set(seq.period.lower, t, seq.period.lower_inc, FALSE))>>
          ELSE <<>>)
         \o (IF t < seq.period.upper
             THEN <<temporalseq_at_period(seq,
                       period_set(t, seq.period.upper, FALSE, seq.period.upper_inc))>>
             ELSE <<>>)

temporal_bbox_eq(box1, box2) == box1 = box2

\* The order of instants: by timestamp, then by value.
temporalinst_cmp(inst1, inst2) ==
    LET c == timestamp_cmp_internal(inst1.t, inst2.t)
    IN  IF c # 0 THEN c
        ELSE IF datum_lt(inst1.value, inst2.value) THEN -1
        ELSE IF datum_lt(inst2.value, inst1.value) THEN 1
        ELSE 0

\* The order of sequences: by period, then by the instants over the shorter
\* common length, then by the number of instants.
temporalseq_cmp(seq1, seq2) ==
    LET c == period_cmp_internal(seq1.period, seq2.period)
        n == Min(Len(seq1.insts), Len(seq2.insts))
        F[k \in 1 .. n + 1] ==
            IF k > n THEN timestamp_cmp_internal(Len(seq1.insts), Len(seq2.insts))
            ELSE IF temporalinst_cmp(seq1.insts[k], seq2.insts[k]) # 0
            THEN temporalinst_cmp(seq1.insts[k], seq2.insts[k])
            ELSE F[k + 1]
    IN  IF c # 0 THEN c ELSE F[1]

\* Two sequences are equal when they have the same period and instants.
temporalseq_eq(seq1, seq2) ==
    /\ Len(seq1.insts) = Len(seq2.insts)
    /\ seq1.period = seq2.period
    /\ \A k \in DOMAIN seq1.insts : seq1.insts[k] = seq2.insts[k]

\* The binary form of a sequence, a list of integers: the number of instants,
\* the two inclusivity flags, then the timestamp and the value of each
\* instant.
BoolCode(b) == IF b THEN 1 ELSE 0

DatumCode(v) == IF v = "a" THEN 0 ELSE 1

DatumOfCode(c) == IF c = 0 THEN "a" ELSE "b"

temporalseq_write(seq) ==
    LET F[k \in 1 .. Len(seq.insts) + 1] ==
            IF k > Len(seq.insts) THEN <<>>
            ELSE <<seq.insts[k].t, DatumCode(seq.insts[k].value)>> \o F[k + 1]
    IN  <<Len(seq.insts), BoolCode(seq.period.lower_inc), BoolCode(seq.period.upper_inc)>>
        \o F[1]

\* The sequence read from buf at position pos (1-based) and the position
\* after it; the period goes from the first to the last instant read.
temporalseq_read(buf, pos) ==
    LET count == buf[pos]
        insts == [k \in 1 .. count |->
                    temporalinst_make(DatumOfCode(buf[pos + 2 + 2 * k]),
                                      buf[pos + 1 + 2 * k])]
    IN  [seq |-> [period |-> period_set(insts[1].t, insts[count].t,
                                        buf[pos + 1] = 1, buf[pos + 2] = 1),
                  insts |-> insts],
         pos |-> pos + 3 + 2 * count]

\* The fragments of a stepwise sequence where its value is kept: one per
\* segment between two instants whose value is kept, closed at the end of the
\* sequence when the last instant is included and kept too, and the last
\* instant alone when only it is kept.  at = TRUE keeps the value v, at =
\* FALSE keeps every other value.
SegFragments(seq, v, at) ==
    LET n == Len(seq.insts)
        F[i \in 1 .. n] ==
            IF i = n THEN <<>>
            ELSE LET i1 == seq.insts[i]
                     i2 == seq.insts[i + 1]
                     keep1 == (i1.value = v) = at
                     keep2 == (i2.value = v) = at
                     linc == IF i = 1 THEN seq.period.lower_inc ELSE TRUE
                     uinc == IF i = n - 1 THEN seq.period.upper_inc ELSE FALSE
                 IN  (IF keep1 /\ uinc /\ keep2
                      THEN <<[period |-> period_set(i1.t, i2.t, linc, TRUE),
                              insts |-> <<i1, i2>>]>>
                      ELSE IF keep1
                      THEN <<[period |-> period_set(i1.t, i2.t, linc, FALSE),
                              insts |-> <<i1, temporalinst_make(i1.value, i2.t)>>]>>
                      ELSE IF uinc /\ keep2
                      THEN <<[period |-> period_set(i2.t, i2.t, TRUE, TRUE),
                              insts |-> <<i2>>]>>
                      ELSE <<>>)
                     \o F[i + 1]
    IN  IF n = 1
        THEN (IF (seq.insts[1].value = v) = at THEN <<seq>> ELSE <<>>)
        ELSE F[1]

temporalseq_at_value2(seq, value) == SegFragments(seq, value, TRUE)

temporalseq_minus_value2(seq, value) == SegFragments(seq, value, FALSE)

\* The box of a value, and the containment of boxes on the value dimension.
number_to_box(value) == [xmin |-> value, xmax |-> value, tmin |-> 0, tmax |-> -1]

contains_tbox_tbox_internal(box1, box2) ==
    /\ ~datum_lt(box2.xmin, box1.xmin)
    /\ ~datum_lt(box1.xmax, box2.xmax)

\* An instant set is the list of its instants.
temporali_make(instants) == instants

temporali_period(ti) == period_set(ti[1].t, Last(ti).t, TRUE, TRUE)

(***************************************************************************)
(* temporals.c: accessors and the builder.                                 *)
(***************************************************************************)
\* The n-th sequence, C index.
temporals_seq_n(ts, index) == ts.seqs[index + 1]

\* The bounding period of a sequence set.
temporals_period(ts) ==
    LET start == temporals_seq_n(ts, 0)
        end == temporals_seq_n(ts, ts.count - 1)
    IN  period_set(start.period.lower, end.period.upper,
                   start.period.lower_inc, end.period.upper_inc)

\* The validity test of temporals_make on sequences i - 1 and i.
MakeOrderViolated_NoTouch(s1, s2) == s1.period.upper > s2.period.lower

MakeOrderViolated(s1, s2) ==
    \/ s1.period.upper > s2.period.lower
    \/ /\ s1.period.upper = s2.period.lower
       /\ s1.period.upper_inc
       /\ s2.period.lower_inc

\* The first C index i in 1 .. count - 1 whose pair (i - 1, i) fails the
\* test, 0 when there is none.
RECURSIVE MakeFirstViolation(_, _)
MakeFirstViolation_StopsEarly(sequences, i) ==
    IF i >= Len(sequences) - 1 THEN 0
    ELSE IF MakeOrderViolated(sequences[i], sequences[i + 1]) THEN i
    ELSE MakeFirstViolation(sequences, i + 1)

MakeFirstViolation(sequences, i) ==
    IF i >= Len(sequences) THEN 0
    ELSE IF MakeOrderViolated(sequences[i], sequences[i + 1]) THEN i
    ELSE MakeFirstViolation(sequences, i + 1)

\* The loop adding up the instant counts of the packed sequences.
RECURSIVE MakeTotalCount(_, _)
MakeTotalCount(newsequences, i) ==
    IF i > Len(newsequences) THEN 0
    ELSE Len(newsequences[i].insts) + MakeTotalCount(newsequences, i + 1)

\* The sequences packed into the result: the elements of newsequences, in
\* order.
MakePacked_FromInput(sequences, newsequences) ==
    [i \in 1 .. Len(newsequences) |-> sequences[i]]

MakePacked(sequences, newsequences) ==
    [i \in 1 .. Len(newsequences) |-> newsequences[i]]

\* temporals_make: [err, errts, ts]; err = "order" is the ereport of the
\* validity test, with the two timestamps it prints, and nothing is returned.
temporals_make(sequences, normalize) ==
    LET v == MakeFirstViolation(sequences, 1)
        newsequences == IF normalize /\ Len(sequences) > 1
                        THEN temporalseqarr_normalize(sequences)
                        ELSE sequences
    IN  IF v # 0
        THEN [err |-> "order",
              errts |-> <<sequences[v].period.upper, sequences[v + 1].period.lower>>,
              ts |-> NoTS]
        ELSE [err |-> "",
              errts |-> <<>>,
              ts |-> [count |-> Len(newsequences),
                      totalcount |-> MakeTotalCount(newsequences, 1),
                      seqs |-> MakePacked(sequences, newsequences),
                      bbox |-> temporals_make_bbox(newsequences)]]

\* An empty array built as a set: a header with count 0 and a zeroed box.
temporals_make_free_BuildsEmpty(sequences, normalize) ==
    IF Len(sequences) = 0
    THEN [err |-> "", errts |-> <<>>,
          ts |-> [count |-> 0, totalcount |-> 0, seqs |-> <<>>,
                  bbox |-> [xmin |-> "a", xmax |-> "a", tmin |-> 0, tmax |-> 0]]]
    ELSE temporals_make(sequences, normalize)

\* temporals_make_free: NULL for an empty array.
temporals_make_free(sequences, normalize) ==
    IF Len(sequences) = 0 THEN [err |-> "", errts |-> <<>>, ts |-> NoTS]
    ELSE temporals_make(sequences, normalize)

\* temporals_append_instant: the last sequence extended by inst, the others
\* copied; the collaborator rejects an instant that is not after the last one.
AppendTotalCount_NoSub(ts, seq, newseq) == ts.totalcount + Len(newseq.insts)

AppendTotalCount(ts, seq, newseq) ==
    ts.totalcount - Len(seq.insts) + Len(newseq.insts)

\* The trailing box of the result: the box of ts expanded with the box of
\* the appended instant.
AppendBox_NoExpand(ts, inst) == ts.bbox

AppendBox(ts, inst) == temporal_bbox_expand(ts.bbox, temporalinst_make_bbox(inst))

\* The packed sequences of the result: the first count - 1 sequences of ts
\* copied in order, then newseq.
AppendSequences_CopiesAll(ts, newseq) == ts.seqs \o <<newseq>>

AppendSequences(ts, newseq) == SubSeq(ts.seqs, 1, ts.count - 1) \o <<newseq>>

temporals_append_instant(ts, inst) ==
    LET seq == temporals_seq_n(ts, ts.count - 1)
        newseq == temporalseq_append_instant(seq, inst)
    IN  IF ~ensure_increasing_timestamps(Last(seq.insts), inst)
        THEN [err |-> "increasing", errts |-> <<Last(seq.insts).t, inst.t>>, ts |-> NoTS]
        ELSE [err |-> "",
              errts |-> <<>>,
              ts |-> [count |-> ts.count,
                      totalcount |-> AppendTotalCount(ts, seq, newseq),
                      seqs |-> AppendSequences(ts, newseq),
                      bbox |-> AppendBox(ts, inst)]]

(***************************************************************************)
(* temporals.c: the timestamp locator.                                     *)
(***************************************************************************)
\* The branch of the binary search that moves last below middle.
FindGoesLeft(seq, t) == t <= seq.period.lower

\* The location reported after an unsuccessful search that last probed
\* the sequence seq at C index middle.
FindMissLoc_AlwaysStep(seq, t, middle) == middle + 1

FindMissLoc_NoStep(seq, t, middle) == middle

FindMissLoc(seq, t, middle) ==
    IF t >= seq.period.upper THEN middle + 1 ELSE middle

RECURSIVE FindLoop(_, _, _, _, _)
FindLoop(ts, t, first, last, middle) ==
    IF first > last
    THEN [found |-> FALSE, loc |-> FindMissLoc(temporals_seq_n(ts, middle), t, middle)]
    ELSE LET m == (first + last) \div 2
             seq == temporals_seq_n(ts, m)
         IN  IF contains_period_timestamp_internal(seq.period, t)
             THEN [found |-> TRUE, loc |-> m]
             ELSE IF FindGoesLeft(seq, t)
             THEN FindLoop(ts, t, first, m - 1, m)
             ELSE FindLoop(ts, t, m + 1, last, m)

\* temporals_find_timestamp: [found, loc], loc a C index.
temporals_find_timestamp(ts, t) == FindLoop(ts, t, 0, ts.count - 1, 0)

(***************************************************************************)
(* temporals.c: the intersects predicates.                                 *)
(***************************************************************************)
temporals_intersects_timestamp(ts, t) ==
    IF temporals_find_timestamp(ts, t).found THEN FALSE ELSE TRUE

RECURSIVE temporals_intersects_timestampset_loop(_, _, _)
temporals_intersects_timestampset_loop(ts, ts1, i) ==
    IF i > Len(ts1) THEN FALSE
    ELSE IF temporals_intersects_timestamp(ts, ts1[i]) THEN TRUE
    ELSE temporals_intersects_timestampset_loop(ts, ts1, i + 1)

temporals_intersects_timestampset(ts, ts1) ==
    temporals_intersects_timestampset_loop(ts, ts1, 1)

\* The scan of temporals_intersects_period from C index i.
RECURSIVE IntersectsPeriodScan(_, _, _)
IntersectsPeriodScan(ts, p, i) ==
    IF i >= ts.count THEN FALSE
    ELSE LET seq == temporals_seq_n(ts, i)
         IN  IF overlaps_period_period_internal(seq.period, p) THEN TRUE
             ELSE IF p.upper < seq.period.upper THEN FALSE
             ELSE IntersectsPeriodScan(ts, p, i + 1)

temporals_intersects_period(ts, p) ==
    LET f1 == temporals_find_timestamp(ts, p.lower)
        f2 == temporals_find_timestamp(ts, p.upper)
    IN  IF f1.found \/ f2.found THEN TRUE
        ELSE IntersectsPeriodScan(ts, p, f1.loc)

RECURSIVE temporals_intersects_periodset_loop(_, _, _)
temporals_intersects_periodset_loop(ts, ps, i) ==
    IF i > Len(ps) THEN FALSE
    ELSE IF temporals_intersects_period(ts, ps[i]) THEN TRUE
    ELSE temporals_intersects_periodset_loop(ts, ps, i + 1)

temporals_intersects_periodset(ts, ps) ==
    temporals_intersects_periodset_loop(ts, ps, 1)

(***************************************************************************)
(* temporals.c: restriction to a timestamp and to a period.                *)
(***************************************************************************)
temporals_at_timestamp(ts, t) ==
    IF ~contains_period_timestamp_internal(temporals_period(ts), t) THEN NoInst
    ELSE IF ts.count = 1 THEN temporalseq_at_timestamp(temporals_seq_n(ts, 0), t)
    ELSE LET f == temporals_find_timestamp(ts, t)
         IN  IF ~f.found THEN NoInst
             ELSE temporalseq_at_timestamp(temporals_seq_n(ts, f.loc), t)

temporals_copy(ts) == ts

\* The loop of temporals_at_value from C index i: the fragments of every
\* sequence, in order.
RECURSIVE AtValueLoop(_, _, _)
AtValueLoop_StopsEarly(ts, value, i) ==
    IF i >= ts.count - 1 THEN <<>>
    ELSE temporalseq_at_value2(temporals_seq_n(ts, i), value)
         \o AtValueLoop(ts, value, i + 1)

AtValueLoop(ts, value, i) ==
    IF i >= ts.count THEN <<>>
    ELSE temporalseq_at_value2(temporals_seq_n(ts, i), value)
         \o AtValueLoop(ts, value, i + 1)

temporalseq_at_value(seq, value) ==
    temporals_make_free(temporalseq_at_value2(seq, value), TRUE)

\* temporals_at_value: [err, errts, ts], ts = NoTS for NULL.
temporals_at_value(ts, value) ==
    IF ~contains_tbox_tbox_internal(ts.bbox, number_to_box(value))
    THEN [err |-> "", errts |-> <<>>, ts |-> NoTS]
    ELSE IF ts.count = 1
    THEN temporalseq_at_value(temporals_seq_n(ts, 0), value)
    ELSE temporals_make_free(AtValueLoop(ts, value, 0), TRUE)

\* The loop of temporals_minus_value from C index i.
RECURSIVE MinusValueLoop(_, _, _)
MinusValueLoop(ts, value, i) ==
    IF i >= ts.count THEN <<>>
    ELSE temporalseq_minus_value2(temporals_seq_n(ts, i), value)
         \o MinusValueLoop(ts, value, i + 1)

temporalseq_minus_value(seq, value) ==
    temporals_make_free(temporalseq_minus_value2(seq, value), TRUE)

\* temporals_minus_value: [err, errts, ts], ts = NoTS for NULL.
temporals_minus_value(ts, value) ==
    IF ~contains_tbox_tbox_internal(ts.bbox, number_to_box(value))
    THEN [err |-> "", errts |-> <<>>, ts |-> temporals_copy(ts)]
    ELSE IF ts.count = 1
    THEN temporalseq_minus_value(temporals_seq_n(ts, 0), value)
    ELSE temporals_make_free(MinusValueLoop(ts, value, 0), TRUE)

\* The sequences copied after the loop of temporals_minus_timestamp left at
\* C index i with the break (i is stepped before the break).
MinusTimestampRest_NoStep(ts, i) == SubSeq(ts.seqs, i + 1, ts.count)

MinusTimestampRest(ts, i) == SubSeq(ts.seqs, i + 2, ts.count)

\* The loop of temporals_minus_timestamp from C index i: the fragments of
\* each sequence, up to the first sequence that ends after t.
RECURSIVE MinusTimestampLoop(_, _, _)
MinusTimestampLoop(ts, t, i) ==
    IF i >= ts.count THEN <<>>
    ELSE LET seq == temporals_seq_n(ts, i)
         IN  temporalseq_minus_timestamp1(seq, t)
             \o (IF t < seq.period.upper THEN MinusTimestampRest(ts, i)
                 ELSE MinusTimestampLoop(ts, t, i + 1))

\* temporalseq_minus_timestamp: the fragments of one sequence as a set.
temporalseq_minus_timestamp(seq, t) ==
    temporals_make_free(temporalseq_minus_timestamp1(seq, t), FALSE)

\* temporals_minus_timestamp: [err, errts, ts], ts = NoTS for NULL.
temporals_minus_timestamp(ts, t) ==
    IF ~contains_period_timestamp_internal(temporals_period(ts), t)
    THEN [err |-> "", errts |-> <<>>, ts |-> temporals_copy(ts)]
    ELSE IF ts.count = 1
    THEN temporalseq_minus_timestamp(temporals_seq_n(ts, 0), t)
    ELSE temporals_make_free(MinusTimestampLoop(ts, t, 0), FALSE)

\* The scan of temporals_at_period from C index i: the collected fragments.
RECURSIVE AtPeriodScan(_, _, _)
AtPeriodScan(ts, p, i) ==
    IF i >= ts.count THEN <<>>
    ELSE LET seq == temporals_seq_n(ts, i)
             frag == IF contains_period_period_internal(p, seq.period) THEN <<seq>>
                     ELSE IF overlaps_period_period_internal(p, seq.period)
                     THEN <<temporalseq_at_period(seq, p)>>
                     ELSE <<>>
             cmp == timestamp_cmp_internal(p.upper, seq.period.upper)
         IN  IF cmp < 0 \/ (cmp = 0 /\ seq.period.upper_inc) THEN frag
             ELSE frag \o AtPeriodScan(ts, p, i + 1)

\* The number of sequences the scan of temporals_at_period from C index i
\* clips with temporalseq_at_period and stores in tofree.
RECURSIVE AtPeriodClips(_, _, _)
AtPeriodClips(ts, p, i) ==
    IF i >= ts.count THEN 0
    ELSE LET seq == temporals_seq_n(ts, i)
             l == IF /\ ~contains_period_period_internal(p, seq.period)
                     /\ overlaps_period_period_internal(p, seq.period)
                  THEN 1 ELSE 0
             cmp == timestamp_cmp_internal(p.upper, seq.period.upper)
         IN  IF cmp < 0 \/ (cmp = 0 /\ seq.period.upper_inc) THEN l
             ELSE l + AtPeriodClips(ts, p, i + 1)

\* The index temporals_at_period starts its scan at.
AtPeriodLoc(ts, p) == temporals_find_timestamp(ts, p.lower).loc

\* temporals_at_period: [err, errts, ts], ts = NoTS for NULL.
temporals_at_period(ts, p) ==
    IF ~overlaps_period_period_internal(temporals_period(ts), p)
    THEN [err |-> "", errts |-> <<>>, ts |-> NoTS]
    ELSE IF ts.count = 1
    THEN temporals_make(<<temporalseq_at_period(temporals_seq_n(ts, 0), p)>>, FALSE)
    ELSE LET loc == AtPeriodLoc(ts, p)
             sequences == AtPeriodScan(ts, p, loc)
         IN  IF Len(sequences) = 0 THEN [err |-> "", errts |-> <<>>, ts |-> NoTS]
             ELSE temporals_make(sequences, FALSE)

(***************************************************************************)
(* temporals.c: intersection and synchronization.                          *)
(***************************************************************************)
\* The cursor step of intersection_temporals_temporali: <<di, dj>>.
InstAdvance(seq, inst) ==
    LET cmp == timestamp_cmp_internal(seq.period.upper, inst.t)
    IN  IF cmp = 0 THEN <<1, 1>>
        ELSE IF cmp < 0 THEN <<1, 0>>
        ELSE <<0, 1>>

\* The merge loop of intersection_temporals_temporali from C indexes i, j:
\* the pairs <<instant of ts, instant of ti>> collected.
RECURSIVE IntersectionTILoop(_, _, _, _)
IntersectionTILoop(ts, ti, i, j) ==
    IF ~(i < ts.count /\ j < Len(ti)) THEN <<>>
    ELSE LET seq == temporals_seq_n(ts, i)
             inst == ti[j + 1]
             hit == IF contains_period_timestamp_internal(seq.period, inst.t)
                    THEN <<<<temporalseq_at_timestamp(seq, inst.t), inst>>>>
                    ELSE <<>>
             d == InstAdvance(seq, inst)
         IN  hit \o IntersectionTILoop(ts, ti, i + d[1], j + d[2])

\* intersection_temporals_temporali: [ret, inter1, inter2], instant sets.
intersection_temporals_temporali(ts, ti) ==
    IF ~overlaps_period_period_internal(temporals_period(ts), temporali_period(ti))
    THEN [ret |-> FALSE, inter1 |-> <<>>, inter2 |-> <<>>]
    ELSE LET pairs == IntersectionTILoop(ts, ti, 0, 0)
         IN  IF Len(pairs) = 0 THEN [ret |-> FALSE, inter1 |-> <<>>, inter2 |-> <<>>]
             ELSE [ret |-> TRUE,
                   inter1 |-> temporali_make([k \in DOMAIN pairs |-> pairs[k][1]]),
                   inter2 |-> temporali_make([k \in DOMAIN pairs |-> pairs[k][2]])]

\* The fragment intersection_temporals_temporalseq collects for inter2 from
\* the sequence seq1 of ts and the operand seq.
SeqInterFragment(seq1, seq) == temporalseq_at_period(seq1, seq.period)

\* The loop of intersection_temporals_temporalseq from C index i.
RECURSIVE IntersectionTSeqLoop(_, _, _)
IntersectionTSeqLoop(ts, seq, i) ==
    IF i >= ts.count THEN <<>>
    ELSE LET seq1 == temporals_seq_n(ts, i)
             interseq == SeqInterFragment(seq1, seq)
             frag == IF interseq # NoSeq THEN <<interseq>> ELSE <<>>
             cmp == timestamp_cmp_internal(seq.period.upper, seq1.period.upper)
         IN  IF cmp < 0 \/ (cmp = 0 /\ (~seq.period.upper_inc \/ seq1.period.upper_inc))
             THEN frag
             ELSE frag \o IntersectionTSeqLoop(ts, seq, i + 1)

\* intersection_temporals_temporalseq: [ret, err, errts, inter1, inter2].
intersection_temporals_temporalseq(ts, seq) ==
    IF ~overlaps_period_period_internal(seq.period, temporals_period(ts))
    THEN [ret |-> FALSE, err |-> "", errts |-> <<>>, inter1 |-> NoTS, inter2 |-> NoTS]
    ELSE LET r1 == temporals_at_period(ts, seq.period)
             sequences == IntersectionTSeqLoop(ts, seq, 0)
             r2 == temporals_make_free(sequences, FALSE)
         IN  IF r1.err # ""
             THEN [ret |-> FALSE, err |-> r1.err, errts |-> r1.errts,
                   inter1 |-> NoTS, inter2 |-> NoTS]
             ELSE IF r2.err # ""
             THEN [ret |-> FALSE, err |-> r2.err, errts |-> r2.errts,
                   inter1 |-> NoTS, inter2 |-> NoTS]
             ELSE [ret |-> Len(sequences) # 0, err |-> "", errts |-> <<>>,
                   inter1 |-> r1.ts, inter2 |-> r2.ts]

\* intersection_temporalseq_temporals: the operands and the outputs swapped.
intersection_temporalseq_temporals(seq, ts) ==
    LET r == intersection_temporals_temporalseq(ts, seq)
    IN  [r EXCEPT !.inter1 = r.inter2, !.inter2 = r.inter1]

\* The index synchronize_temporals_temporalseq starts its scan at.
SyncTSeqLoc(ts, seq) == temporals_find_timestamp(ts, seq.period.lower).loc

\* The loop of synchronize_temporals_temporalseq from C index i: the pairs
\* <<syncseq1, syncseq2>> collected.
RECURSIVE SyncTSeqLoop(_, _, _, _)
SyncTSeqLoop(ts, seq, crossings, i) ==
    IF i >= ts.count THEN <<>>
    ELSE LET seq1 == temporals_seq_n(ts, i)
             r == synchronize_temporalseq_temporalseq(seq, seq1, crossings)
             hit == IF r.ret THEN <<<<r.sync1, r.sync2>>>> ELSE <<>>
             cmp == timestamp_cmp_internal(seq.period.upper, seq1.period.upper)
         IN  IF cmp < 0 \/ (cmp = 0 /\ (~seq.period.upper_inc \/ seq1.period.upper_inc))
             THEN hit
             ELSE hit \o SyncTSeqLoop(ts, seq, crossings, i + 1)

\* synchronize_temporals_temporalseq: [ret, err, errts, inter1, inter2], the
\* outputs sync1, sync2 in the fields inter1, inter2.
synchronize_temporals_temporalseq(ts, seq, crossings) ==
    IF ~overlaps_period_period_internal(seq.period, temporals_period(ts))
    THEN [ret |-> FALSE, err |-> "", errts |-> <<>>, inter1 |-> NoTS, inter2 |-> NoTS]
    ELSE LET loc == SyncTSeqLoc(ts, seq)
             pairs == SyncTSeqLoop(ts, seq, crossings, loc)
             r1 == temporals_make_free([k \in DOMAIN pairs |-> pairs[k][1]], FALSE)
             r2 == temporals_make_free([k \in DOMAIN pairs |-> pairs[k][2]], FALSE)
         IN  IF Len(pairs) = 0
             THEN [ret |-> FALSE, err |-> "", errts |-> <<>>,
                   inter1 |-> NoTS, inter2 |-> NoTS]
             ELSE IF r1.err # ""
             THEN [ret |-> FALSE, err |-> r1.err, errts |-> r1.errts,
                   inter1 |-> NoTS, inter2 |-> NoTS]
             ELSE IF r2.err # ""
             THEN [ret |-> FALSE, err |-> r2.err, errts |-> r2.errts,
                   inter1 |-> NoTS, inter2 |-> NoTS]
             ELSE [ret |-> TRUE, err |-> "", errts |-> <<>>,
                   inter1 |-> r1.ts, inter2 |-> r2.ts]

\* The cursor step of the set x set merge-joins: <<di, dj>>.
MergeAdvance_Stuck(p1, p2) ==
    IF period_eq_internal(p1, p2) THEN <<1, 1>> ELSE <<1, 0>>

MergeAdvance(p1, p2) ==
    IF period_eq_internal(p1, p2) THEN <<1, 1>>
    ELSE IF period_lt_internal(p1, p2) THEN <<1, 0>>
    ELSE <<0, 1>>

\* The merge loop of intersection_temporals_temporals from C indexes i, j:
\* the pairs <<fragment of ts1, fragment of ts2>> collected.
RECURSIVE IntersectionLoop(_, _, _, _)
IntersectionLoop(ts1, ts2, i, j) ==
    IF ~(i < ts1.count /\ j < ts2.count) THEN <<>>
    ELSE LET seq1 == temporals_seq_n(ts1, i)
             seq2 == temporals_seq_n(ts2, j)
             r == intersection_temporalseq_temporalseq(seq1, seq2)
             hit == IF r.ret THEN <<<<r.inter1, r.inter2>>>> ELSE <<>>
             d == MergeAdvance(seq1.period, seq2.period)
         IN  hit \o IntersectionLoop(ts1, ts2, i + d[1], j + d[2])

\* The two outputs built from the collected pairs, without normalization.
MergeOutputs(pairs) ==
    LET r1 == temporals_make_free([k \in DOMAIN pairs |-> pairs[k][1]], FALSE)
        r2 == temporals_make_free([k \in DOMAIN pairs |-> pairs[k][2]], FALSE)
    IN  IF r1.err # ""
        THEN [ret |-> FALSE, err |-> r1.err, errts |-> r1.errts,
              inter1 |-> NoTS, inter2 |-> NoTS]
        ELSE IF r2.err # ""
        THEN [ret |-> FALSE, err |-> r2.err, errts |-> r2.errts,
              inter1 |-> NoTS, inter2 |-> NoTS]
        ELSE [ret |-> TRUE, err |-> "", errts |-> <<>>,
              inter1 |-> r1.ts, inter2 |-> r2.ts]

\* intersection_temporals_temporals: [ret, err, errts, inter1, inter2].
intersection_temporals_temporals(ts1, ts2) ==
    IF ~overlaps_period_period_internal(temporals_period(ts1), temporals_period(ts2))
    THEN [ret |-> FALSE, err |-> "", errts |-> <<>>, inter1 |-> NoTS, inter2 |-> NoTS]
    ELSE LET pairs == IntersectionLoop(ts1, ts2, 0, 0)
         IN  IF Len(pairs) = 0
             THEN [ret |-> FALSE, err |-> "", errts |-> <<>>,
                   inter1 |-> NoTS, inter2 |-> NoTS]
             ELSE MergeOutputs(pairs)

\* The merge loop of synchronize_temporals_temporals.
RECURSIVE SynchronizeLoop(_, _, _, _, _)
SynchronizeLoop(ts1, ts2, crossings, i, j) ==
    IF ~(i < ts1.count /\ j < ts2.count) THEN <<>>
    ELSE LET seq1 == temporals_seq_n(ts1, i)
             seq2 == temporals_seq_n(ts2, j)
             r == synchronize_temporalseq_temporalseq(seq1, seq2, crossings)
             hit == IF r.ret THEN <<<<r.sync1, r.sync2>>>> ELSE <<>>
             d == MergeAdvance(seq1.period, seq2.period)
         IN  hit \o SynchronizeLoop(ts1, ts2, crossings, i + d[1], j + d[2])

\* synchronize_temporals_temporals: [ret, err, errts, inter1, inter2], the
\* outputs sync1, sync2 in the fields inter1, inter2.
synchronize_temporals_temporals(ts1, ts2, crossings) ==
    IF ~overlaps_period_period_internal(temporals_period(ts1), temporals_period(ts2))
    THEN [ret |-> FALSE, err |-> "", errts |-> <<>>, inter1 |-> NoTS, inter2 |-> NoTS]
    ELSE LET pairs == SynchronizeLoop(ts1, ts2, crossings, 0, 0)
         IN  IF Len(pairs) = 0
             THEN [ret |-> FALSE, err |-> "", errts |-> <<>>,
                   inter1 |-> NoTS, inter2 |-> NoTS]
             ELSE MergeOutputs(pairs)

(***************************************************************************)
(* temporals.c: binary output and input.                                   *)
(***************************************************************************)
\* temporals_write: the count, then every sequence in order.
RECURSIVE WriteLoop(_, _)
WriteLoop(ts, i) ==
    IF i >= ts.count THEN <<>>
    ELSE temporalseq_write(temporals_seq_n(ts, i)) \o WriteLoop(ts, i + 1)

temporals_write(ts) == <<ts.count>> \o WriteLoop(ts, 0)

\* The loop of temporals_read: count sequences read from position pos on.
RECURSIVE ReadLoop(_, _, _, _)
ReadLoop_StopsEarly(buf, count, i, pos) ==
    IF i >= count - 1 THEN <<>>
    ELSE LET r == temporalseq_read(buf, pos)
         IN  <<r.seq>> \o ReadLoop(buf, count, i + 1, r.pos)

ReadLoop(buf, count, i, pos) ==
    IF i >= count THEN <<>>
    ELSE LET r == temporalseq_read(buf, pos)
         IN  <<r.seq>> \o ReadLoop(buf, count, i + 1, r.pos)

\* temporals_read: the set rebuilt without normalization.
temporals_read(buf) ==
    LET count == buf[1]
    IN  temporals_make_free(ReadLoop(buf, count, 0, 2), FALSE)

(***************************************************************************)
(* temporals.c: equality and comparison.                                   *)
(***************************************************************************)
\* The flags word of a set: stepwise interpolation, X and T dimensions.
temporals_flags(ts) == [linear |-> FALSE, x |-> TRUE, t |-> TRUE]

\* The loop of temporals_eq from C index i: every pair of sequences equal.
RECURSIVE EqLoop(_, _, _)
EqLoop_SkipsLast(ts1, ts2, i) ==
    IF i >= ts1.count - 1 THEN TRUE
    ELSE IF ~temporalseq_eq(temporals_seq_n(ts1, i), temporals_seq_n(ts2, i)) THEN FALSE
    ELSE EqLoop(ts1, ts2, i + 1)

EqLoop(ts1, ts2, i) ==
    IF i >= ts1.count THEN TRUE
    ELSE IF ~temporalseq_eq(temporals_seq_n(ts1, i), temporals_seq_n(ts2, i)) THEN FALSE
    ELSE EqLoop(ts1, ts2, i + 1)

temporals_eq(ts1, ts2) ==
    IF ts1.count # ts2.count \/ temporals_flags(ts1) # temporals_flags(ts2) THEN FALSE
    ELSE IF ~temporal_bbox_eq(ts1.bbox, ts2.bbox) THEN FALSE
    ELSE EqLoop(ts1, ts2, 0)

\* The loop of temporals_cmp from C index i over the first count sequences:
\* the first non-zero sequence comparison, 0 when there is none.
RECURSIVE CmpLoop(_, _, _, _)
CmpLoop_FirstOnly(ts1, ts2, count, i) ==
    IF i >= count THEN 0
    ELSE temporalseq_cmp(temporals_seq_n(ts1, i), temporals_seq_n(ts2, i))

CmpLoop(ts1, ts2, count, i) ==
    IF i >= count THEN 0
    ELSE LET result == temporalseq_cmp(temporals_seq_n(ts1, i), temporals_seq_n(ts2, i))
         IN  IF result # 0 THEN result
             ELSE CmpLoop(ts1, ts2, count, i + 1)

temporals_cmp(ts1, ts2) ==
    LET first1 == temporals_seq_n(ts1, 0)
        first2 == temporals_seq_n(ts2, 0)
        last1 == temporals_seq_n(ts1, ts1.count - 1)
        last2 == temporals_seq_n(ts2, ts2.count - 1)
    IN  IF \/ (first1.period.lower_inc /\ ~first2.period.lower_inc)
           \/ (~last1.period.upper_inc /\ last2.period.upper_inc)
        THEN -1
        ELSE IF \/ (first2.period.lower_inc /\ ~first1.period.lower_inc)
                \/ (~last2.period.upper_inc /\ last1.period.upper_inc)
        THEN 1
        ELSE CmpLoop(ts1, ts2, Min(ts1.count, ts2.count), 0)

(***************************************************************************)
(* temporals.c: hash.                                                      *)
(***************************************************************************)
\* A uint32 is [hi, lo], its two 16-bit halves: the value hi * 2^16 + lo.
\* Arithmetic is modulo 2^32.
Half == 2 ^ 16

U32(hi, lo) == [hi |-> hi, lo |-> lo]

U32Shl5(x) ==
    U32((x.hi * 32 + (x.lo * 32) \div Half) % Half, (x.lo * 32) % Half)

U32Sub(x, y) ==
    U32((x.hi + Half - y.hi - (IF x.lo < y.lo THEN 1 ELSE 0)) % Half,
        (x.lo + Half - y.lo) % Half)

U32Add(x, y) ==
    U32((x.hi + y.hi + (x.lo + y.lo) \div Half) % Half, (x.lo + y.lo) % Half)

\* One step of the loop of temporals_hash, in uint32:
\* result = (result << 5) - result + seq_hash.
HashStep_NoSubtract(result, seq_hash) == U32Add(U32Shl5(result), seq_hash)

HashStep(result, seq_hash) == U32Add(U32Sub(U32Shl5(result), result), seq_hash)

\* temporals_hash over the hashes temporalseq_hash returns for the sequences
\* of the set, in order: hashes[i + 1] is the hash of the sequence at C
\* index i.
temporals_hash(hashes) ==
    LET F[i \in 0 .. Len(hashes)] ==
            IF i = 0 THEN U32(0, 1) ELSE HashStep(F[i - 1], hashes[i])
    IN  F[Len(hashes)]

(***************************************************************************)
(* temporals.c: the n-th instant and the n-th timestamp.                   *)
(***************************************************************************)
temporalseq_inst_n(seq, index) == seq.insts[index + 1]

temporalinst_eq(inst1, inst2) == inst1.t = inst2.t /\ inst1.value = inst2.value

\* temporals_num_timestamps from C index i with the running result.
RECURSIVE NumTimestampsLoop(_, _, _, _, _)
NumTimestampsLoop(ts, i, result, first, lasttime) ==
    IF i >= ts.count THEN result
    ELSE LET seq == temporals_seq_n(ts, i)
             r1 == result + Len(seq.insts)
             r2 == IF ~first /\ lasttime = temporalseq_inst_n(seq, 0).t
                   THEN r1 - 1 ELSE r1
         IN  NumTimestampsLoop(ts, i + 1, r2, FALSE,
                               temporalseq_inst_n(seq, Len(seq.insts) - 1).t)

temporals_num_timestamps(ts) == NumTimestampsLoop(ts, 0, 0, TRUE, 0)

\* The search of temporals_instant_n and temporals_timestamp_n for the
\* 0-based n from C index i: [found, inst].  The first instant of a sequence
\* repeats the last one seen when the instants are equal (byinst) or when
\* their timestamps are.
SameTimestamp(inst1, inst2) == inst1.t = inst2.t

RECURSIVE NthLoop(_, _, _, _, _, _, _, _)
NthLoop(ts, n, i, count, prevcount, first, prev, byinst) ==
    IF i >= ts.count THEN [found |-> FALSE, inst |-> NoInst]
    ELSE LET seq == temporals_seq_n(ts, i)
             dup == /\ ~first
                    /\ IF byinst THEN temporalinst_eq(prev, temporalseq_inst_n(seq, 0))
                       ELSE SameTimestamp(prev, temporalseq_inst_n(seq, 0))
             c == IF dup THEN count + Len(seq.insts) - 1 ELSE count + Len(seq.insts)
             pcount == IF dup THEN prevcount - 1 ELSE prevcount
         IN  IF pcount <= n /\ n < c
             THEN [found |-> TRUE, inst |-> temporalseq_inst_n(seq, n - pcount)]
             ELSE NthLoop(ts, n, i + 1, c, c, FALSE,
                          temporalseq_inst_n(seq, Len(seq.insts) - 1), byinst)

\* temporals_instant_n: [err, found, inst]; err = "assert" when the
\* assertion of line 1275 fails in a build with assertions (cassert), found
\* = FALSE for NULL.
temporals_instant_n(ts, n, cassert) ==
    IF cassert /\ ~(n >= 1 /\ n <= ts.totalcount)
    THEN [err |-> "assert", found |-> FALSE, inst |-> NoInst]
    ELSE IF n = 1
    THEN [err |-> "", found |-> TRUE,
          inst |-> temporalseq_inst_n(temporals_seq_n(ts, 0), 0)]
    ELSE LET r == NthLoop(ts, n - 1, 0, 0, 0, TRUE, NoInst, TRUE)
         IN  [err |-> "", found |-> r.found, inst |-> r.inst]

\* temporals_timestamp_n: [found, t].
temporals_timestamp_n(ts, n) ==
    IF n < 1 THEN [found |-> FALSE, t |-> -1]
    ELSE IF n = 1
    THEN [found |-> TRUE, t |-> temporalseq_inst_n(temporals_seq_n(ts, 0), 0).t]
    ELSE LET r == NthLoop(ts, n - 1, 0, 0, 0, TRUE, NoInst, FALSE)
         IN  [found |-> r.found, t |-> r.inst.t]

(***************************************************************************)
(* temporals.c: the validity tests and the header of temporals_make, for   *)
(* sequences that carry their value kind (valuetypid), interpolation       *)
(* (linear), spatial reference (srid) and Z dimension (hasz).              *)
(***************************************************************************)
NoHeader == [valuetypid |-> "", linear |-> FALSE, hasz |-> FALSE]

\* ensure_same_srid_tpoint, ensure_same_dimensionality_tpoint: the error
\* raised, "" for none.
ensure_same_srid_tpoint(seq1, seq2) ==
    IF seq1.srid # seq2.srid THEN "srid" ELSE ""

ensure_same_dimensionality_tpoint(seq1, seq2) ==
    IF seq1.hasz # seq2.hasz THEN "dimensionality" ELSE ""

MakeIsGeo(sequences) == sequences[1].valuetypid \in {"geometry", "geography"}

\* The validity loop of temporals_make from C index i: the first error.
RECURSIVE MakeValidity(_, _)
MakeValidity(sequences, i) ==
    IF i >= Len(sequences) THEN ""
    ELSE IF MakeOrderViolated(sequences[i], sequences[i + 1]) THEN "increasing"
    ELSE IF MakeIsGeo(sequences)
            /\ ensure_same_srid_tpoint(sequences[i], sequences[i + 1]) # ""
    THEN "srid"
    ELSE IF MakeIsGeo(sequences)
            /\ ensure_same_dimensionality_tpoint(sequences[i], sequences[i + 1]) # ""
    THEN "dimensionality"
    ELSE MakeValidity(sequences, i + 1)

\* The header fields temporals_make sets: all taken from sequences[0].
MakeHeader(sequences) ==
    [valuetypid |-> sequences[1].valuetypid,
     linear |-> sequences[1].linear,
     hasz |-> IF MakeIsGeo(sequences) THEN sequences[1].hasz ELSE FALSE]

\* temporals_make without normalization on sequences with tags:
\* [err, ts, header].
temporals_make_tagged(sequences) ==
    IF MakeValidity(sequences, 1) # ""
    THEN [err |-> MakeValidity(sequences, 1), ts |-> NoTS, header |-> NoHeader]
    ELSE [err |-> "", ts |-> temporals_make(sequences, FALSE).ts,
          header |-> MakeHeader(sequences)]

(***************************************************************************)
(* temporals.c: the memory layout built by temporals_make and              *)
(* temporals_append_instant.  A buffer is [size, pdata, count, offsets,    *)
(* data]: offsets is the offset table (C index i is element i + 1) and     *)
(* data the bytes from address pdata on.  The k-th byte of the sequence    *)
(* seq is <<<<seq>>, k>>, of the box <<<<>>, k>>; a byte never written     *)
(* (palloc0) is ZeroByte.                                                  *)
(***************************************************************************)
NoMem == [size |-> 0, pdata |-> 0, count |-> 0, offsets |-> <<>>, data |-> <<>>]

\* The size in bytes of a packed sequence: a header and its instants.
VARSIZE(seq) == 4 + 6 * Len(seq.insts)

ZeroByte == <<<<>>, 0>>

SeqBytes(seq) == [k \in 1 .. VARSIZE(seq) |-> <<<<seq>>, k>>]

BoxBytes(bboxsize) == [k \in 1 .. bboxsize |-> <<<<>>, k>>]

\* double_pad: the size rounded up to a multiple of 8.
double_pad(size) == IF size % 8 = 0 THEN size ELSE size + (8 - (size % 8))

\* memcpy(data + pos, bytes, Len(bytes)) inside the allocated data.
memcpy(data, pos, bytes) ==
    [k \in 1 .. Len(data) |->
        IF pos < k /\ k <= pos + Len(bytes) THEN bytes[k - pos] ELSE data[k]]

\* sizeof(TemporalS) is 32: a header of 24 bytes and the first offset.
LayoutPdata(count) == double_pad(32) + count * 8

\* The address temporals_seq_n and temporals_bbox_ptr take for the start of
\* the data: &ts->offsets[ts->count + 1].
LayoutDataStart(count) == 24 + (count + 1) * 8

\* The size of the data: the padded sequences and the padded box.
RECURSIVE LayoutMemsize(_, _)
LayoutMemsize(seqs, i) ==
    IF i > Len(seqs) THEN 0
    ELSE double_pad(VARSIZE(seqs[i])) + LayoutMemsize(seqs, i + 1)

\* The position after copying one sequence at pos.
LayoutNextPos_NoPad(pos, seq) == pos + VARSIZE(seq)

LayoutNextPos(pos, seq) == pos + double_pad(VARSIZE(seq))

\* The copy loop from element i: every sequence copied at pos and its offset
\* recorded; [pos, offsets, data].
RECURSIVE LayoutCopy(_, _, _, _, _)
LayoutCopy(seqs, i, pos, offsets, data) ==
    IF i > Len(seqs) THEN [pos |-> pos, offsets |-> offsets, data |-> data]
    ELSE LayoutCopy(seqs, i + 1, LayoutNextPos(pos, seqs[i]),
                    [offsets EXCEPT ![i] = pos],
                    memcpy(data, pos, SeqBytes(seqs[i])))

\* The buffer holding the sequences seqs and a box of bboxsize bytes.
LayoutBuffer(seqs, bboxsize) ==
    LET count == Len(seqs)
        pdata == LayoutPdata(count)
        memsize == LayoutMemsize(seqs, 1) + double_pad(bboxsize)
        c == LayoutCopy(seqs, 1, 0, [i \in 1 .. count + 1 |-> 0],
                        [k \in 1 .. memsize |-> ZeroByte])
    IN  [size |-> pdata + memsize,
         pdata |-> pdata,
         count |-> count,
         offsets |-> IF bboxsize # 0 THEN [c.offsets EXCEPT ![count + 1] = c.pos]
                     ELSE c.offsets,
         data |-> IF bboxsize # 0 THEN memcpy(c.data, c.pos, BoxBytes(bboxsize))
                  ELSE c.data]

\* temporals_seq_n on a buffer: the address of the sequence at C index
\* index, relative to the data, and the sequence that starts there.
temporals_seq_n_offset(mem, index) ==
    LayoutDataStart(mem.count) + mem.offsets[index + 1] - mem.pdata

temporals_seq_n_mem(mem, index) ==
    mem.data[temporals_seq_n_offset(mem, index) + 1][1][1]

\* temporals_make with the buffer: [err, errts, ts, mem].
temporals_make_mem(sequences, normalize, bboxsize) ==
    LET r == temporals_make(sequences, normalize)
    IN  [err |-> r.err, errts |-> r.errts, ts |-> r.ts,
         mem |-> IF r.err # "" THEN NoMem ELSE LayoutBuffer(r.ts.seqs, bboxsize)]

\* temporals_append_instant with the buffers: the first count - 1 sequences
\* are read from the buffer of ts.
temporals_append_instant_mem(ts, mem, inst, bboxsize) ==
    LET r == temporals_append_instant(ts, inst)
        seq == temporals_seq_n_mem(mem, ts.count - 1)
        newseq == temporalseq_append_instant(seq, inst)
    IN  [err |-> r.err, errts |-> r.errts, ts |-> r.ts,
         mem |-> IF r.err # "" THEN NoMem
                 ELSE LayoutBuffer([i \in 1 .. ts.count |->
                                      IF i < ts.count THEN temporals_seq_n_mem(mem, i - 1)
                                      ELSE newseq], bboxsize)]

(***************************************************************************)
(* Ranges of values (rangetypes.c), boxes of ranges (tbox.c) and the       *)
(* restrictions and comparisons of one sequence (temporalseq.c):           *)
(* collaborators of temporals.c.  A range is [lower, upper, lower_inc,     *)
(* upper_inc] over the values.                                             *)
(***************************************************************************)
NoRange == [lower |-> "a", upper |-> "a", lower_inc |-> FALSE, upper_inc |-> FALSE]

datum_le(l, r) == ~datum_lt(r, l)

range_contains_elem(range, v) ==
    /\ datum_le(range.lower, v) /\ datum_le(v, range.upper)
    /\ (v = range.lower => range.lower_inc)
    /\ (v = range.upper => range.upper_inc)

range_to_tbox_internal(range) ==
    [xmin |-> range.lower, xmax |-> range.upper, tmin |-> 0, tmax |-> -1]

\* The boxes overlap on the value dimension.
overlaps_tbox_tbox_internal(box1, box2) ==
    /\ datum_le(box1.xmin, box2.xmax)
    /\ datum_le(box2.xmin, box1.xmax)

\* The fragments of a stepwise sequence, in time order, where it takes a
\* value of the set keep: a segment keeps its first value up to its end,
\* which belongs to it only as the inclusive end of the sequence.
SegFragmentsIn(seq, keep) ==
    LET n == Len(seq.insts)
        F[i \in 1 .. n] ==
            IF i = n THEN <<>>
            ELSE LET i1 == seq.insts[i]
                     i2 == seq.insts[i + 1]
                     linc == IF i = 1 THEN seq.period.lower_inc ELSE TRUE
                     uinc == IF i = n - 1 THEN seq.period.upper_inc ELSE FALSE
                 IN  (IF i1.value \in keep /\ uinc /\ i2.value \in keep
                      THEN <<[period |-> period_set(i1.t, i2.t, linc, TRUE),
                              insts |-> <<i1, i2>>]>>
                      ELSE IF i1.value \in keep
                      THEN <<[period |-> period_set(i1.t, i2.t, linc, FALSE),
                              insts |-> <<i1, temporalinst_make(i1.value, i2.t)>>]>>
                      ELSE IF uinc /\ i2.value \in keep
                      THEN <<[period |-> period_set(i2.t, i2.t, TRUE, TRUE),
                              insts |-> <<i2>>]>>
                      ELSE <<>>)
                     \o F[i + 1]
    IN  IF n = 1
        THEN (IF seq.insts[1].value \in keep THEN <<seq>> ELSE <<>>)
        ELSE F[1]

\* values is a C array of distinct values, normranges of disjoint ranges.
InValues(values, v) == \E k \in DOMAIN values : values[k] = v

InRanges(normranges, v) == \E k \in DOMAIN normranges : range_contains_elem(normranges[k], v)

temporalseq_at_values1(seq, values) ==
    SegFragmentsIn(seq, {v \in Values : InValues(values, v)})

temporalseq_minus_values1(seq, values) ==
    SegFragmentsIn(seq, {v \in Values : ~InValues(values, v)})

tnumberseq_at_range2(seq, range) ==
    SegFragmentsIn(seq, {v \in Values : range_contains_elem(range, v)})

tnumberseq_minus_range1(seq, range) ==
    SegFragmentsIn(seq, {v \in Values : ~range_contains_elem(range, v)})

tnumberseq_at_ranges1(seq, normranges) ==
    SegFragmentsIn(seq, {v \in Values : InRanges(normranges, v)})

tnumberseq_minus_ranges1(seq, normranges) ==
    SegFragmentsIn(seq, {v \in Values : ~InRanges(normranges, v)})

\* The restriction of one sequence as a set: NULL without fragments.
temporalseq_at_values(seq, values) ==
    temporals_make_free(temporalseq_at_values1(seq, values), TRUE)

temporalseq_minus_values(seq, values) ==
    temporals_make_free(temporalseq_minus_values1(seq, values), TRUE)

tnumberseq_at_range(seq, range) ==
    temporals_make_free(tnumberseq_at_range2(seq, range), TRUE)

tnumberseq_minus_range(seq, range) ==
    temporals_make_free(tnumberseq_minus_range1(seq, range), TRUE)

tnumberseq_at_ranges(seq, normranges) ==
    temporals_make_free(tnumberseq_at_ranges1(seq, normranges), TRUE)

tnumberseq_minus_ranges(seq, normranges) ==
    temporals_make_free(tnumberseq_minus_ranges1(seq, normranges), TRUE)

\* The values a stepwise sequence takes: those of its instants, the last
\* one only at an inclusive upper bound.
temporalseq_values(seq) ==
    IF Len(seq.insts) = 1 THEN {seq.insts[1].value}
    ELSE {seq.insts[k].value : k \in 1 .. Len(seq.insts) - 1}
         \cup (IF seq.period.upper_inc THEN {Last(seq.insts).value} ELSE {})

temporalseq_ever_eq(seq, value) == \E v \in temporalseq_values(seq) : v = value

temporalseq_always_eq(seq, value) == \A v \in temporalseq_values(seq) : v = value

temporalseq_ever_lt(seq, value) == \E v \in temporalseq_values(seq) : datum_lt(v, value)

temporalseq_ever_le(seq, value) == \E v \in temporalseq_values(seq) : datum_le(v, value)

temporalseq_always_lt(seq, value) == \A v \in temporalseq_values(seq) : datum_lt(v, value)

temporalseq_always_le(seq, value) == \A v \in temporalseq_values(seq) : datum_le(v, value)

(***************************************************************************)
(* temporals.c: ever and always comparisons, restriction to values and to  *)
(* ranges.  numeric tells a kind with a value box (INT4OID, FLOAT8OID).    *)
(***************************************************************************)
temporals_ever_eq(ts, value, numeric) ==
    IF numeric /\ (datum_lt(value, ts.bbox.xmin) \/ datum_lt(ts.bbox.xmax, value))
    THEN FALSE
    ELSE \E i \in 0 .. ts.count - 1 : temporalseq_ever_eq(temporals_seq_n(ts, i), value)

temporals_always_eq(ts, value, numeric) ==
    IF numeric THEN ts.bbox.xmin = ts.bbox.xmax /\ ts.bbox.xmax = value
    ELSE \A i \in 0 .. ts.count - 1 : temporalseq_always_eq(temporals_seq_n(ts, i), value)

temporals_ever_lt(ts, value, numeric) ==
    IF numeric /\ datum_lt(value, ts.bbox.xmin) THEN FALSE
    ELSE \E i \in 0 .. ts.count - 1 : temporalseq_ever_lt(temporals_seq_n(ts, i), value)

temporals_ever_le_BoxMax(ts, value, numeric) ==
    IF numeric /\ datum_lt(value, ts.bbox.xmax) THEN FALSE
    ELSE \E i \in 0 .. ts.count - 1 : temporalseq_ever_le(temporals_seq_n(ts, i), value)

temporals_ever_le(ts, value, numeric) ==
    IF numeric /\ datum_lt(value, ts.bbox.xmin) THEN FALSE
    ELSE \E i \in 0 .. ts.count - 1 : temporalseq_ever_le(temporals_seq_n(ts, i), value)

temporals_always_lt(ts, value, numeric) ==
    IF numeric /\ datum_lt(value, ts.bbox.xmax) THEN FALSE
    ELSE \A i \in 0 .. ts.count - 1 : temporalseq_always_lt(temporals_seq_n(ts, i), value)

temporals_always_le(ts, value, numeric) ==
    IF numeric /\ datum_lt(value, ts.bbox.xmax) THEN FALSE
    ELSE \A i \in 0 .. ts.count - 1 : temporalseq_always_le(temporals_seq_n(ts, i), value)

\* The loop of a restriction to values or ranges from C index i: the
\* fragments frags(seq) of every sequence, in order.
RECURSIVE ValuesLoop(_, _, _)
ValuesLoop(ts, frags, i) ==
    IF i >= ts.count THEN <<>>
    ELSE frags[i + 1] \o ValuesLoop(ts, frags, i + 1)

\* temporals_at_values: [err, errts, ts], ts = NoTS for NULL.
temporals_at_values(ts, values) ==
    IF ts.count = 1 THEN temporalseq_at_values(temporals_seq_n(ts, 0), values)
    ELSE temporals_make_free(
            ValuesLoop(ts, [k \in 1 .. ts.count |->
                               temporalseq_at_values1(ts.seqs[k], values)], 0), TRUE)

temporals_minus_values(ts, values) ==
    IF ts.count = 1 THEN temporalseq_minus_values(temporals_seq_n(ts, 0), values)
    ELSE temporals_make_free(
            ValuesLoop(ts, [k \in 1 .. ts.count |->
                               temporalseq_minus_values1(ts.seqs[k], values)], 0), TRUE)

\* The part of tnumbers_at_range after the bounding box test.
AtRangeScan(ts, range) ==
    IF ts.count = 1 THEN tnumberseq_at_range(temporals_seq_n(ts, 0), range)
    ELSE temporals_make_free(
            ValuesLoop(ts, [k \in 1 .. ts.count |->
                               tnumberseq_at_range2(ts.seqs[k], range)], 0), TRUE)

tnumbers_at_range(ts, range) ==
    IF ~overlaps_tbox_tbox_internal(ts.bbox, range_to_tbox_internal(range))
    THEN [err |-> "", errts |-> <<>>, ts |-> NoTS]
    ELSE AtRangeScan(ts, range)

\* The part of tnumbers_minus_range after the bounding box test.
MinusRangeScan(ts, range) ==
    IF ts.count = 1 THEN tnumberseq_minus_range(temporals_seq_n(ts, 0), range)
    ELSE temporals_make_free(
            ValuesLoop(ts, [k \in 1 .. ts.count |->
                               tnumberseq_minus_range1(ts.seqs[k], range)], 0), TRUE)

tnumbers_minus_range(ts, range) ==
    IF ~overlaps_tbox_tbox_internal(ts.bbox, range_to_tbox_internal(range))
    THEN [err |-> "", errts |-> <<>>, ts |-> temporals_copy(ts)]
    ELSE MinusRangeScan(ts, range)

tnumbers_at_ranges(ts, normranges) ==
    IF ts.count = 1 THEN tnumberseq_at_ranges(temporals_seq_n(ts, 0), normranges)
    ELSE temporals_make_free(
            ValuesLoop(ts, [k \in 1 .. ts.count |->
                               tnumberseq_at_ranges1(ts.seqs[k], normranges)], 0), TRUE)

tnumbers_minus_ranges(ts, normranges) ==
    IF ts.count = 1 THEN tnumberseq_minus_ranges(temporals_seq_n(ts, 0), normranges)
    ELSE temporals_make_free(
            ValuesLoop(ts, [k \in 1 .. ts.count |->
                               tnumberseq_minus_ranges1(ts.seqs[k], normranges)], 0), TRUE)

(***************************************************************************)
(* Timestamp sets and period sets (timestampset.c, periodset.c) and the    *)
(* restrictions of one sequence to them (temporalseq.c): collaborators of  *)
(* temporals.c.  A timestamp set is the list of its timestamps, a period   *)
(* set the list of its periods; <<>> is the NULL period set.               *)
(***************************************************************************)
timestampset_bbox(tset) == period_set(tset[1], Last(tset), TRUE, TRUE)

periodset_bbox(ps) ==
    period_set(ps[1].lower, Last(ps).upper, ps[1].lower_inc, Last(ps).upper_inc)

\* The locator of a period set: the binary search of the sequence set
\* locator over the periods.
periodset_find_timestamp(ps, t) ==
    temporals_find_timestamp(
        [count |-> Len(ps), seqs |-> [k \in DOMAIN ps |-> [period |-> ps[k]]]], t)

before_period_period_internal(p1, p2) ==
    \/ p1.upper < p2.lower
    \/ (p1.upper = p2.lower /\ ~(p1.upper_inc /\ p2.lower_inc))

\* The parts of period p1 outside period p2: before it and after it.
minus_period_period_internal(p1, p2) ==
    IF ~overlaps_period_period_internal(p1, p2) THEN <<p1>>
    ELSE (IF p1.lower < p2.lower \/ (p1.lower = p2.lower /\ p1.lower_inc /\ ~p2.lower_inc)
          THEN <<period_set(p1.lower, p2.lower, p1.lower_inc, ~p2.lower_inc)>>
          ELSE <<>>)
         \o (IF p2.upper < p1.upper \/ (p1.upper = p2.upper /\ p1.upper_inc /\ ~p2.upper_inc)
             THEN <<period_set(p2.upper, p1.upper, ~p2.upper_inc, p1.upper_inc)>>
             ELSE <<>>)

\* The concatenation of a list of lists.
RECURSIVE Flatten(_)
Flatten(ss) == IF Len(ss) = 0 THEN <<>> ELSE Head(ss) \o Flatten(Tail(ss))

minus_periodset_period_internal(ps, p) ==
    Flatten([k \in DOMAIN ps |-> minus_period_period_internal(ps[k], p)])

\* The time of a sequence set: the periods of its sequences.
temporals_get_time(ts) == [k \in 1 .. ts.count |-> ts.seqs[k].period]

\* The instants of a sequence at the timestamps of a set.
temporalseq_at_timestampset(seq, tset) ==
    temporali_make(
        Flatten([k \in DOMAIN tset |->
                    IF contains_period_timestamp_internal(seq.period, tset[k])
                    THEN <<temporalseq_at_timestamp(seq, tset[k])>> ELSE <<>>]))

\* The fragments of a sequence outside the timestamps tset[k ..].
RECURSIVE MinusTimestampsetFrom(_, _, _)
MinusTimestampsetFrom(frags, tset, k) ==
    IF k > Len(tset) THEN frags
    ELSE MinusTimestampsetFrom(
            Flatten([f \in DOMAIN frags |-> temporalseq_minus_timestamp1(frags[f], tset[k])]),
            tset, k + 1)

temporalseq_minus_timestampset1(seq, tset) == MinusTimestampsetFrom(<<seq>>, tset, 1)

temporalseq_minus_timestampset(seq, tset) ==
    temporals_make_free(temporalseq_minus_timestampset1(seq, tset), FALSE)

\* The fragments of a sequence outside a period.
temporalseq_minus_period1(seq, p) ==
    LET rest == minus_period_period_internal(seq.period, p)
    IN  [k \in DOMAIN rest |-> temporalseq_at_period(seq, rest[k])]

temporalseq_minus_period(seq, p) ==
    temporals_make_free(temporalseq_minus_period1(seq, p), FALSE)

\* The fragments of a sequence inside the periods of a set.
temporalseq_at_periodset1(seq, ps) ==
    Flatten([k \in DOMAIN ps |->
                IF overlaps_period_period_internal(seq.period, ps[k])
                THEN <<temporalseq_at_period(seq, ps[k])>> ELSE <<>>])

temporalseq_at_periodset(seq, ps) ==
    temporals_make_free(temporalseq_at_periodset1(seq, ps), FALSE)

\* The fragments of a sequence outside the periods ps[k ..] (k from 1).
RECURSIVE MinusPeriodsetFrom(_, _, _)
MinusPeriodsetFrom(frags, ps, k) ==
    IF k > Len(ps) THEN frags
    ELSE MinusPeriodsetFrom(
            Flatten([f \in DOMAIN frags |-> temporalseq_minus_period1(frags[f], ps[k])]),
            ps, k + 1)

\* from is a C index.
temporalseq_minus_periodset1(seq, ps, from) == MinusPeriodsetFrom(<<seq>>, ps, from + 1)

temporalseq_minus_periodset(seq, ps) ==
    temporals_make_free(temporalseq_minus_periodset1(seq, ps, 0), FALSE)

temporali_make_free(instants) == temporali_make(instants)

(***************************************************************************)
(* temporals.c: restriction to a timestamp set, to the complement of a     *)
(* period, to a period set and to their complements.  A merge loop is      *)
(* given by its iterations from C indexes i, j: a list of [i, j, out, d]   *)
(* with out the fragments the iteration writes and d = <<di, dj>> the      *)
(* steps of the two cursors; the list ends at an iteration that steps      *)
(* neither cursor.                                                         *)
(***************************************************************************)
\* The fragments written by the iterations of a merge loop.
LoopOutputs(iters) == Flatten([k \in DOMAIN iters |-> iters[k].out])

\* The steps of the cursors of temporals_at_timestampset: i over the
\* timestamps, j over the sequences.
AtTimestampsetAdvance_StrictLower(seq, t) ==
    IF contains_period_timestamp_internal(seq.period, t) THEN <<1, 0>>
    ELSE <<IF t < seq.period.lower THEN 1 ELSE 0,
           IF t >= seq.period.upper THEN 1 ELSE 0>>

AtTimestampsetAdvance(seq, t) ==
    IF contains_period_timestamp_internal(seq.period, t) THEN <<1, 0>>
    ELSE <<IF t <= seq.period.lower THEN 1 ELSE 0,
           IF t >= seq.period.upper THEN 1 ELSE 0>>

RECURSIVE AtTimestampsetLoop(_, _, _, _)
AtTimestampsetLoop(ts, tset, i, j) ==
    IF ~(i < Len(tset) /\ j < ts.count) THEN <<>>
    ELSE LET seq == temporals_seq_n(ts, j)
             t == tset[i + 1]
             hit == IF contains_period_timestamp_internal(seq.period, t)
                    THEN <<temporalseq_at_timestamp(seq, t)>> ELSE <<>>
             d == AtTimestampsetAdvance(seq, t)
         IN  <<[i |-> i, j |-> j, out |-> hit, d |-> d]>>
             \o (IF d = <<0, 0>> THEN <<>>
                 ELSE AtTimestampsetLoop(ts, tset, i + d[1], j + d[2]))

\* temporals_at_timestampset: the instant set, <<>> for NULL.
temporals_at_timestampset(ts, tset) ==
    IF ~overlaps_period_period_internal(temporals_period(ts), timestampset_bbox(tset))
    THEN <<>>
    ELSE IF ts.count = 1
    THEN temporalseq_at_timestampset(temporals_seq_n(ts, 0), tset)
    ELSE temporali_make_free(LoopOutputs(AtTimestampsetLoop(ts, tset, 0, 0)))

\* The loop of temporals_minus_timestampset from C index i.
RECURSIVE MinusTimestampsetLoop(_, _, _)
MinusTimestampsetLoop(ts, tset, i) ==
    IF i >= ts.count THEN <<>>
    ELSE temporalseq_minus_timestampset1(temporals_seq_n(ts, i), tset)
         \o MinusTimestampsetLoop(ts, tset, i + 1)

\* temporals_minus_timestampset: [err, errts, ts], ts = NoTS for NULL.
temporals_minus_timestampset(ts, tset) ==
    IF ~overlaps_period_period_internal(temporals_period(ts), timestampset_bbox(tset))
    THEN [err |-> "", errts |-> <<>>, ts |-> temporals_copy(ts)]
    ELSE IF ts.count = 1
    THEN temporalseq_minus_timestampset(temporals_seq_n(ts, 0), tset)
    ELSE temporals_make_free(MinusTimestampsetLoop(ts, tset, 0), TRUE)

\* The steps of the cursors of temporals_at_periodset: i over the sequences,
\* j over the periods.
AtPeriodsetAdvance_PeriodFirst(seq, p) ==
    LET cmp == timestamp_cmp_internal(seq.period.upper, p.upper)
    IN  IF cmp = 0 /\ seq.period.upper_inc = p.upper_inc THEN <<1, 1>>
        ELSE IF cmp < 0 THEN <<1, 0>>
        ELSE <<0, 1>>

AtPeriodsetAdvance_Stalls(seq, p) ==
    LET cmp == timestamp_cmp_internal(seq.period.upper, p.upper)
    IN  IF cmp = 0 /\ seq.period.upper_inc = p.upper_inc THEN <<0, 0>>
        ELSE IF cmp < 0 \/ (cmp = 0 /\ ~seq.period.upper_inc /\ p.upper_inc) THEN <<1, 0>>
        ELSE <<0, 1>>

AtPeriodsetAdvance(seq, p) ==
    LET cmp == timestamp_cmp_internal(seq.period.upper, p.upper)
    IN  IF cmp = 0 /\ seq.period.upper_inc = p.upper_inc THEN <<1, 1>>
        ELSE IF cmp < 0 \/ (cmp = 0 /\ ~seq.period.upper_inc /\ p.upper_inc) THEN <<1, 0>>
        ELSE <<0, 1>>

RECURSIVE AtPeriodsetLoop(_, _, _, _)
AtPeriodsetLoop(ts, ps, i, j) ==
    IF ~(i < ts.count /\ j < Len(ps)) THEN <<>>
    ELSE LET seq == temporals_seq_n(ts, i)
             p == ps[j + 1]
             seq1 == temporalseq_at_period(seq, p)
             d == AtPeriodsetAdvance(seq, p)
         IN  <<[i |-> i, j |-> j, out |-> IF seq1 # NoSeq THEN <<seq1>> ELSE <<>>, d |-> d]>>
             \o (IF d = <<0, 0>> THEN <<>>
                 ELSE AtPeriodsetLoop(ts, ps, i + d[1], j + d[2]))

\* The indexes temporals_at_periodset starts its loop at: <<loc1, loc2>>.
AtPeriodsetLocs(ts, ps) ==
    LET t == Max(temporals_period(ts).lower, periodset_bbox(ps).lower)
    IN  <<temporals_find_timestamp(ts, t).loc, periodset_find_timestamp(ps, t).loc>>

\* temporals_at_periodset: [err, errts, ts], ts = NoTS for NULL.
temporals_at_periodset(ts, ps) ==
    IF ~overlaps_period_period_internal(temporals_period(ts), periodset_bbox(ps))
    THEN [err |-> "", errts |-> <<>>, ts |-> NoTS]
    ELSE IF ts.count = 1
    THEN temporalseq_at_periodset(temporals_seq_n(ts, 0), ps)
    ELSE LET locs == AtPeriodsetLocs(ts, ps)
         IN  temporals_make_free(
                 LoopOutputs(AtPeriodsetLoop(ts, ps, locs[1], locs[2])), FALSE)

\* temporals_minus_period: [err, errts, ts], ts = NoTS for NULL.
temporals_minus_period(ts, p) ==
    IF ~overlaps_period_period_internal(temporals_period(ts), p)
    THEN [err |-> "", errts |-> <<>>, ts |-> temporals_copy(ts)]
    ELSE IF ts.count = 1
    THEN temporalseq_minus_period(temporals_seq_n(ts, 0), p)
    ELSE LET ps == temporals_get_time(ts)
             resultps == minus_periodset_period_internal(ps, p)
         IN  IF resultps # <<>> THEN temporals_at_periodset(ts, resultps)
             ELSE [err |-> "", errts |-> <<>>, ts |-> NoTS]

\* The merge loop of temporals_minus_periodset: i over the sequences, j over
\* the periods.
RECURSIVE MinusPeriodsetLoop(_, _, _, _)
MinusPeriodsetLoop(ts, ps, i, j) ==
    IF ~(i < ts.count /\ j < Len(ps)) THEN <<>>
    ELSE LET seq == temporals_seq_n(ts, i)
             p2 == ps[j + 1]
             it == IF ~overlaps_period_period_internal(seq.period, p2)
                   THEN IF before_period_period_internal(p2, seq.period)
                        THEN [i |-> i, j |-> j, out |-> <<>>, d |-> <<0, 1>>]
                        ELSE [i |-> i, j |-> j, out |-> <<seq>>, d |-> <<1, 0>>]
                   ELSE [i |-> i, j |-> j,
                         out |-> temporalseq_minus_periodset1(seq, ps, j), d |-> <<1, 0>>]
         IN  <<it>> \o MinusPeriodsetLoop(ts, ps, i + it.d[1], j + it.d[2])

\* The sequences temporals_minus_periodset copies after its merge loop.
MinusPeriodsetRest(ts, iters) ==
    LET i == IF Len(iters) = 0 THEN 0 ELSE Last(iters).i + Last(iters).d[1]
    IN  SubSeq(ts.seqs, i + 1, ts.count)

\* temporals_minus_periodset: [err, errts, ts], ts = NoTS for NULL.
temporals_minus_periodset(ts, ps) ==
    IF ~overlaps_period_period_internal(temporals_period(ts), periodset_bbox(ps))
    THEN [err |-> "", errts |-> <<>>, ts |-> temporals_copy(ts)]
    ELSE IF ts.count = 1
    THEN temporalseq_minus_periodset(temporals_seq_n(ts, 0), ps)
    ELSE LET iters == MinusPeriodsetLoop(ts, ps, 0, 0)
         IN  temporals_make_free(LoopOutputs(iters) \o MinusPeriodsetRest(ts, iters), FALSE)

(***************************************************************************)
(* Inputs.                                                                 *)
(***************************************************************************)
AllPeriods ==
    {p \in {r : r \in [lower : Times, upper : Times,
                        lower_inc : BOOLEAN, upper_inc : BOOLEAN]} :
        p.lower < p.upper \/ (p.lower = p.upper /\ p.lower_inc /\ p.upper_inc)}

\* The constant sequences with a value of V.
AllSeqs(V) == {temporalseq_from_base_internal(v, p) : v \in V, p \in AllPeriods}

\* p1 lies before p2 and the two share no instant.
Before(p1, p2) ==
    \/ p1.upper < p2.lower
    \/ (p1.upper = p2.lower /\ ~(p1.upper_inc /\ p2.lower_inc))

\* The time-ordered arrays of 1 .. n elements of S (elements with a period).
OrderedArrays(S, n) ==
    LET F[k \in 1 .. n] ==
            IF k = 1 THEN {<<s>> : s \in S}
            ELSE {Append(x[1], x[2]) :
                    x \in {y \in F[k - 1] \X S : Before(Last(y[1]).period, y[2].period)}}
    IN  UNION {F[k] : k \in 1 .. n}

\* Arrays handed to temporals_make: the ordered arrays, and the ordered
\* arrays of one value with one element replaced by any sequence.
InputArrays ==
    OrderedArrays(AllSeqs(Values), MaxSeqs)
    \cup UNION {{[a EXCEPT ![i] = s] : i \in DOMAIN a, s \in AllSeqs({"a"})} :
                  a \in OrderedArrays(AllSeqs({"a"}), MaxSeqs)}

\* Sequence sets as operands, built from an ordered array: the first operand
\* has the value "a", the second operand (set, sequence, instant set) "b".
SetsA == {temporals_make(a, FALSE).ts : a \in OrderedArrays(AllSeqs({"a"}), MaxSeqs)}

\* The first operand of a binary operation.
SetsAB == {temporals_make(a, FALSE).ts : a \in OrderedArrays(AllSeqs({"a"}), MaxSeqsB)}

SetsB == {temporals_make(a, FALSE).ts : a \in OrderedArrays(AllSeqs({"b"}), MaxSeqsB)}

SeqsB == AllSeqs({"b"})

\* Lists of instants with strictly increasing timestamps.
InstLists ==
    {s \in {r : r \in UNION {[1 .. n -> [t : Times, value : Values]] :
                                n \in 1 .. MaxT + 1}} :
        \A i \in 1 .. Len(s) - 1 : s[i].t < s[i + 1].t}

\* The stepwise sequences: instants from the lower to the upper bound; at an
\* exclusive upper bound the last instant repeats the previous value.
StepSeqs ==
    {q \in {r : r \in [period : AllPeriods, insts : InstLists]} :
        /\ q.insts[1].t = q.period.lower
        /\ Last(q.insts).t = q.period.upper
        /\ (~q.period.upper_inc => Last(q.insts).value = q.insts[Len(q.insts) - 1].value)}

\* Sequence sets of stepwise sequences, operands of the restrictions.
SetsR == {temporals_make(a, FALSE).ts : a \in OrderedArrays(StepSeqs, MaxSeqsB)}

\* Operands of the comparisons: sets of at most MaxSeqsB constant sequences,
\* the first of value "a", the second of either value.
SetsC == {temporals_make(a, FALSE).ts : a \in OrderedArrays(AllSeqs({"a"}), MaxSeqsB)}

\* Values temporalseq_hash may return: any uint32, here 0, 1, 2^31 and
\* 2^32 - 1.
HashValues == {U32(0, 0), U32(0, 1), U32(Half \div 2, 0), U32(Half - 1, Half - 1)}

\* Timestamp sets and instant sets: strictly increasing timestamps.
TimestampSets ==
    {s \in {r : r \in UNION {[1 .. n -> Times] : n \in 1 .. MaxT + 1}} :
        \A i \in 1 .. Len(s) - 1 : s[i] < s[i + 1]}

InstantSetsB ==
    {[i \in DOMAIN s |-> temporalinst_make("b", s[i])] : s \in TimestampSets}

\* Period sets: ordered periods that neither overlap nor touch at an instant
\* one of them contains.
PeriodSets ==
    {ps \in {r : r \in UNION {[1 .. n -> AllPeriods] : n \in 1 .. MaxSeqsB}} :
        \A i \in 1 .. Len(ps) - 1 :
            \/ ps[i].upper < ps[i + 1].lower
            \/ (ps[i].upper = ps[i + 1].lower /\ ~ps[i].upper_inc /\ ~ps[i + 1].lower_inc)}

\* The tags of a sequence: temporal integers, floats (stepwise and linear)
\* and geometry points of two spatial references, with and without Z.
Tags ==
    {[valuetypid |-> "int4", linear |-> FALSE, srid |-> 0, hasz |-> FALSE],
     [valuetypid |-> "float8", linear |-> FALSE, srid |-> 0, hasz |-> FALSE],
     [valuetypid |-> "float8", linear |-> TRUE, srid |-> 0, hasz |-> FALSE],
     [valuetypid |-> "geometry", linear |-> TRUE, srid |-> 0, hasz |-> FALSE],
     [valuetypid |-> "geometry", linear |-> TRUE, srid |-> 1, hasz |-> FALSE],
     [valuetypid |-> "geometry", linear |-> TRUE, srid |-> 0, hasz |-> TRUE]}

Tagged(seq, tag) ==
    [period |-> seq.period, insts |-> seq.insts, valuetypid |-> tag.valuetypid,
     linear |-> tag.linear, srid |-> tag.srid, hasz |-> tag.hasz]

\* Arrays of one or two tagged sequences, time-ordered or exchanged.
TaggedArrays ==
    LET S == AllSeqs({"a"})
        arrays == {<<s>> : s \in S}
                  \cup {x \in S \X S : \/ Before(x[1].period, x[2].period)
                                       \/ Before(x[2].period, x[1].period)}
    IN  {[i \in DOMAIN a |-> Tagged(a[i], tags[i])] : a \in arrays, tags \in [{1, 2} -> Tags]}

\* The sizes of the trailing box: none, and one that needs padding.
BoxSizes == {0, 12}

\* Operands of the restrictions to times: sets of at most MaxSeqsB constant
\* sequences whose values alternate between "a" and "b".
SetsW ==
    {temporals_make([k \in DOMAIN a |->
                        IF k % 2 = 1 THEN a[k]
                        ELSE temporalseq_from_base_internal("b", a[k].period)],
                    FALSE).ts :
        a \in OrderedArrays(AllSeqs({"a"}), MaxSeqsB)}

\* Ranges of values, arrays of distinct values in increasing order and
\* arrays of disjoint ranges in increasing order.
Ranges ==
    {r \in {x : x \in [lower : Values, upper : Values,
                        lower_inc : BOOLEAN, upper_inc : BOOLEAN]} :
        datum_lt(r.lower, r.upper) \/ (r.lower = r.upper /\ r.lower_inc /\ r.upper_inc)}

ValueArrays ==
    {s \in {x : x \in UNION {[1 .. n -> Values] : n \in 1 .. Cardinality(Values)}} :
        \A i \in 1 .. Len(s) - 1 : datum_lt(s[i], s[i + 1])}

RangeArrays ==
    {s \in {x : x \in UNION {[1 .. n -> Ranges] : n \in 1 .. Cardinality(Values)}} :
        \A i \in 1 .. Len(s) - 1 : datum_lt(s[i].upper, s[i + 1].lower)}

(***************************************************************************)
(* The state machine: an operation of temporals.c applied to drawn inputs. *)
(***************************************************************************)
VARIABLES
    pc,         \* "build", "made", "unary", "binary", "restrict", "compare",
                \* "hash" or "done"
    op,         \* the last operation applied, "" before any
    sequences,  \* the array handed to temporals_make
    normalize,  \* its normalize argument
    ts1,        \* the sequence-set operand (the first one)
    ts2,        \* the second sequence-set operand
    arg,        \* the other arguments of the operation
    out         \* what the operation returned

vars == <<pc, op, sequences, normalize, ts1, ts2, arg, out>>

NoArg == [range |-> NoRange, values |-> <<>>, ranges |-> <<>>, bboxsize |-> 0, n |-> 0, hashes |-> <<>>, value |-> "a", t |-> -1, p |-> NoPeriod, tset |-> <<>>, ps |-> <<>>, ti |-> <<>>,
          seq |-> NoSeq, inst |-> NoInst]

NoOut == [mem |-> NoMem, header |-> NoHeader, ret |-> FALSE, loc |-> -1, cmp |-> 0, hash |-> U32(0, 0), buf |-> <<>>, err |-> "", errts |-> <<>>, ts |-> NoTS,
          inter1 |-> NoTS, inter2 |-> NoTS, insts1 |-> <<>>, insts2 |-> <<>>,
          inst |-> NoInst]

InitBuild ==
    /\ pc = "build"
    /\ op = ""
    /\ sequences \in InputArrays
    /\ normalize \in BOOLEAN
    /\ ts1 = NoTS
    /\ ts2 = NoTS
    /\ arg = NoArg
    /\ out = NoOut

InitUnary ==
    /\ pc = "unary"
    /\ op = ""
    /\ sequences = <<>>
    /\ normalize = FALSE
    /\ ts1 \in SetsA
    /\ ts2 = NoTS
    /\ arg = NoArg
    /\ out = NoOut

InitBinary ==
    /\ pc = "binary"
    /\ op = ""
    /\ sequences = <<>>
    /\ normalize = FALSE
    /\ ts1 \in SetsAB
    /\ ts2 \in SetsB
    /\ arg = NoArg
    /\ out = NoOut

InitRestrict ==
    /\ pc = "restrict"
    /\ op = ""
    /\ sequences = <<>>
    /\ normalize = FALSE
    /\ ts1 \in SetsR
    /\ ts2 = NoTS
    /\ arg = NoArg
    /\ out = NoOut

InitCompare ==
    /\ pc = "compare"
    /\ op = ""
    /\ sequences = <<>>
    /\ normalize = FALSE
    /\ ts1 \in SetsC
    /\ ts2 \in SetsC \cup SetsB
    /\ arg = NoArg
    /\ out = NoOut

\* hashes are the values temporalseq_hash returns for the sequences of ts1.
InitHash ==
    /\ pc = "hash"
    /\ op = ""
    /\ sequences = <<>>
    /\ normalize = FALSE
    /\ ts1 \in SetsC
    /\ ts2 = NoTS
    /\ arg \in {[NoArg EXCEPT !.hashes = h] : h \in [1 .. ts1.count -> HashValues]}
    /\ out = NoOut

InitAccess ==
    /\ pc = "access"
    /\ op = ""
    /\ sequences = <<>>
    /\ normalize = FALSE
    /\ ts1 \in SetsR
    /\ ts2 = NoTS
    /\ arg = NoArg
    /\ out = NoOut

InitKinds ==
    /\ pc = "kinds"
    /\ op = ""
    /\ sequences \in TaggedArrays
    /\ normalize = FALSE
    /\ ts1 = NoTS
    /\ ts2 = NoTS
    /\ arg = NoArg
    /\ out = NoOut

InitLayout ==
    /\ pc = "layout"
    /\ op = ""
    /\ sequences \in OrderedArrays(AllSeqs({"a"}), MaxSeqsB)
    /\ normalize \in BOOLEAN
    /\ ts1 = NoTS
    /\ ts2 = NoTS
    /\ arg \in {[NoArg EXCEPT !.bboxsize = b] : b \in BoxSizes}
    /\ out = NoOut

InitWindow ==
    /\ pc = "window"
    /\ op = ""
    /\ sequences = <<>>
    /\ normalize = FALSE
    /\ ts1 \in SetsW
    /\ ts2 = NoTS
    /\ arg = NoArg
    /\ out = NoOut

Init == InitBuild \/ InitUnary \/ InitBinary \/ InitRestrict \/ InitCompare \/ InitHash
        \/ InitAccess
        \/ InitKinds
        \/ InitLayout
        \/ InitWindow

\* temporals_make(sequences, count, normalize)
Make ==
    /\ pc = "build"
    /\ \E r \in {temporals_make(sequences, normalize)} :
        out' = [NoOut EXCEPT !.err = r.err, !.errts = r.errts, !.ts = r.ts]
    /\ pc' = "made"
    /\ op' = "make"
    /\ UNCHANGED <<sequences, normalize, ts1, ts2, arg>>

\* temporals_append_instant(ts, inst) on the set just built
AppendInstant ==
    /\ pc = "made"
    /\ out.err = ""
    /\ \E t \in Times, v \in Values :
        \E r \in {temporals_append_instant(out.ts, temporalinst_make(v, t))} :
            /\ ts1' = out.ts
            /\ arg' = [NoArg EXCEPT !.inst = temporalinst_make(v, t)]
            /\ out' = [NoOut EXCEPT !.err = r.err, !.errts = r.errts, !.ts = r.ts]
    /\ pc' = "done"
    /\ op' = "append_instant"
    /\ UNCHANGED <<sequences, normalize, ts2>>

NextBuild == Make \/ AppendInstant

SpecBuild == InitBuild /\ [][NextBuild]_vars

\* temporals_find_timestamp(ts, t, &loc)
FindTimestamp ==
    /\ pc = "unary"
    /\ \E t \in Times :
        \E r \in {temporals_find_timestamp(ts1, t)} :
            /\ arg' = [NoArg EXCEPT !.t = t]
            /\ out' = [NoOut EXCEPT !.ret = r.found, !.loc = r.loc]
    /\ pc' = "done"
    /\ op' = "find_timestamp"
    /\ UNCHANGED <<sequences, normalize, ts1, ts2>>

\* temporals_intersects_timestamp(ts, t)
IntersectsTimestamp ==
    /\ pc = "unary"
    /\ \E t \in Times :
        /\ arg' = [NoArg EXCEPT !.t = t]
        /\ out' = [NoOut EXCEPT !.ret = temporals_intersects_timestamp(ts1, t)]
    /\ pc' = "done"
    /\ op' = "intersects_timestamp"
    /\ UNCHANGED <<sequences, normalize, ts1, ts2>>

\* temporals_intersects_timestampset(ts, ts1)
IntersectsTimestampset ==
    /\ pc = "unary"
    /\ \E tset \in TimestampSets :
        /\ arg' = [NoArg EXCEPT !.tset = tset]
        /\ out' = [NoOut EXCEPT !.ret = temporals_intersects_timestampset(ts1, tset)]
    /\ pc' = "done"
    /\ op' = "intersects_timestampset"
    /\ UNCHANGED <<sequences, normalize, ts1, ts2>>

\* temporals_intersects_period(ts, p)
IntersectsPeriod ==
    /\ pc = "unary"
    /\ \E p \in AllPeriods :
        /\ arg' = [NoArg EXCEPT !.p = p]
        /\ out' = [NoOut EXCEPT !.ret = temporals_intersects_period(ts1, p)]
    /\ pc' = "done"
    /\ op' = "intersects_period"
    /\ UNCHANGED <<sequences, normalize, ts1, ts2>>

\* temporals_intersects_periodset(ts, ps)
IntersectsPeriodset ==
    /\ pc = "unary"
    /\ \E ps \in PeriodSets :
        /\ arg' = [NoArg EXCEPT !.ps = ps]
        /\ out' = [NoOut EXCEPT !.ret = temporals_intersects_periodset(ts1, ps)]
    /\ pc' = "done"
    /\ op' = "intersects_periodset"
    /\ UNCHANGED <<sequences, normalize, ts1, ts2>>

\* temporals_at_period(ts, p)
AtPeriod ==
    /\ pc \in {"unary", "window"}
    /\ \E p \in AllPeriods :
        \E r \in {temporals_at_period(ts1, p)} :
            /\ arg' = [NoArg EXCEPT !.p = p]
            /\ out' = [NoOut EXCEPT !.err = r.err, !.errts = r.errts, !.ts = r.ts]
    /\ pc' = "done"
    /\ op' = "at_period"
    /\ UNCHANGED <<sequences, normalize, ts1, ts2>>

\* intersection_temporals_temporali(ts, ti, &inter1, &inter2)
IntersectionTI ==
    /\ pc \in {"unary", "window"}
    /\ \E ti \in InstantSetsB :
        \E r \in {intersection_temporals_temporali(ts1, ti)} :
            /\ arg' = [NoArg EXCEPT !.ti = ti]
            /\ out' = [NoOut EXCEPT !.ret = r.ret, !.insts1 = r.inter1,
                                    !.insts2 = r.inter2]
    /\ pc' = "done"
    /\ op' = "intersection_temporals_temporali"
    /\ UNCHANGED <<sequences, normalize, ts1, ts2>>

\* intersection_temporals_temporalseq(ts, seq, &inter1, &inter2)
IntersectionTSeq ==
    /\ pc = "unary"
    /\ \E seq \in SeqsB :
        \E r \in {intersection_temporals_temporalseq(ts1, seq)} :
            /\ arg' = [NoArg EXCEPT !.seq = seq]
            /\ out' = [NoOut EXCEPT !.ret = r.ret, !.err = r.err, !.errts = r.errts,
                                    !.inter1 = r.inter1, !.inter2 = r.inter2]
    /\ pc' = "done"
    /\ op' = "intersection_temporals_temporalseq"
    /\ UNCHANGED <<sequences, normalize, ts1, ts2>>

\* synchronize_temporals_temporalseq(ts, seq, &sync1, &sync2, crossings)
SynchronizeTSeq ==
    /\ pc = "unary"
    /\ \E seq \in SeqsB, crossings \in BOOLEAN :
        \E r \in {synchronize_temporals_temporalseq(ts1, seq, crossings)} :
            /\ arg' = [NoArg EXCEPT !.seq = seq]
            /\ out' = [NoOut EXCEPT !.ret = r.ret, !.err = r.err, !.errts = r.errts,
                                    !.inter1 = r.inter1, !.inter2 = r.inter2]
    /\ pc' = "done"
    /\ op' = "synchronize_temporals_temporalseq"
    /\ UNCHANGED <<sequences, normalize, ts1, ts2>>

NextUnary ==
    \/ SynchronizeTSeq
    \/ FindTimestamp
    \/ IntersectsTimestamp
    \/ IntersectsTimestampset
    \/ IntersectsPeriod
    \/ IntersectsPeriodset
    \/ AtPeriod
    \/ IntersectionTI
    \/ IntersectionTSeq

SpecUnary == InitUnary /\ [][NextUnary]_vars

\* intersection_temporals_temporals(ts1, ts2, &inter1, &inter2)
IntersectionTT ==
    /\ pc = "binary"
    /\ \E r \in {intersection_temporals_temporals(ts1, ts2)} :
        out' = [NoOut EXCEPT !.ret = r.ret, !.err = r.err, !.errts = r.errts,
                                !.inter1 = r.inter1, !.inter2 = r.inter2]
    /\ pc' = "done"
    /\ op' = "intersection_temporals_temporals"
    /\ UNCHANGED <<sequences, normalize, ts1, ts2, arg>>

\* synchronize_temporals_temporals(ts1, ts2, &sync1, &sync2, crossings)
SynchronizeTT ==
    /\ pc = "binary"
    /\ \E crossings \in BOOLEAN :
        \E r \in {synchronize_temporals_temporals(ts1, ts2, crossings)} :
            out' = [NoOut EXCEPT !.ret = r.ret, !.err = r.err, !.errts = r.errts,
                                 !.inter1 = r.inter1, !.inter2 = r.inter2]
    /\ pc' = "done"
    /\ op' = "synchronize_temporals_temporals"
    /\ UNCHANGED <<sequences, normalize, ts1, ts2, arg>>

NextBinary == IntersectionTT \/ SynchronizeTT

SpecBinary == InitBinary /\ [][NextBinary]_vars

\* temporals_minus_timestamp(ts, t)
MinusTimestamp ==
    /\ pc = "restrict"
    /\ \E t \in Times :
        \E r \in {temporals_minus_timestamp(ts1, t)} :
            /\ arg' = [NoArg EXCEPT !.t = t]
            /\ out' = [NoOut EXCEPT !.err = r.err, !.errts = r.errts, !.ts = r.ts]
    /\ pc' = "done"
    /\ op' = "minus_timestamp"
    /\ UNCHANGED <<sequences, normalize, ts1, ts2>>

\* temporals_write(ts, buf) followed by temporals_read(buf, valuetypid)
WriteRead ==
    /\ pc = "restrict"
    /\ \E b \in {temporals_write(ts1)} :
        \E r \in {temporals_read(b)} :
            out' = [NoOut EXCEPT !.buf = b, !.err = r.err, !.errts = r.errts, !.ts = r.ts]
    /\ pc' = "done"
    /\ op' = "write_read"
    /\ UNCHANGED <<sequences, normalize, ts1, ts2, arg>>

\* temporals_make(sequences, count, true) on the sequences of a set
MakeNormalized ==
    /\ pc = "restrict"
    /\ \E r \in {temporals_make(ts1.seqs, TRUE)} :
        out' = [NoOut EXCEPT !.err = r.err, !.errts = r.errts, !.ts = r.ts]
    /\ pc' = "done"
    /\ op' = "make_normalized"
    /\ UNCHANGED <<sequences, normalize, ts1, ts2, arg>>

\* temporals_at_value(ts, value)
AtValue ==
    /\ pc = "restrict"
    /\ \E v \in Values :
        \E r \in {temporals_at_value(ts1, v)} :
            /\ arg' = [NoArg EXCEPT !.value = v]
            /\ out' = [NoOut EXCEPT !.err = r.err, !.errts = r.errts, !.ts = r.ts]
    /\ pc' = "done"
    /\ op' = "at_value"
    /\ UNCHANGED <<sequences, normalize, ts1, ts2>>

\* temporals_minus_value(ts, value)
MinusValue ==
    /\ pc = "restrict"
    /\ \E v \in Values :
        \E r \in {temporals_minus_value(ts1, v)} :
            /\ arg' = [NoArg EXCEPT !.value = v]
            /\ out' = [NoOut EXCEPT !.err = r.err, !.errts = r.errts, !.ts = r.ts]
    /\ pc' = "done"
    /\ op' = "minus_value"
    /\ UNCHANGED <<sequences, normalize, ts1, ts2>>

\* temporals_ever_eq(ts, value)
EverEq ==
    /\ pc = "restrict"
    /\ \E v \in Values :
        /\ arg' = [NoArg EXCEPT !.value = v]
        /\ out' = [NoOut EXCEPT !.ret = temporals_ever_eq(ts1, v, TRUE)]
    /\ pc' = "done"
    /\ op' = "ever_eq"
    /\ UNCHANGED <<sequences, normalize, ts1, ts2>>

\* temporals_always_eq(ts, value)
AlwaysEq ==
    /\ pc = "restrict"
    /\ \E v \in Values :
        /\ arg' = [NoArg EXCEPT !.value = v]
        /\ out' = [NoOut EXCEPT !.ret = temporals_always_eq(ts1, v, TRUE)]
    /\ pc' = "done"
    /\ op' = "always_eq"
    /\ UNCHANGED <<sequences, normalize, ts1, ts2>>

\* temporals_ever_lt(ts, value)
EverLt ==
    /\ pc = "restrict"
    /\ \E v \in Values :
        /\ arg' = [NoArg EXCEPT !.value = v]
        /\ out' = [NoOut EXCEPT !.ret = temporals_ever_lt(ts1, v, TRUE)]
    /\ pc' = "done"
    /\ op' = "ever_lt"
    /\ UNCHANGED <<sequences, normalize, ts1, ts2>>

\* temporals_ever_le(ts, value)
EverLe ==
    /\ pc = "restrict"
    /\ \E v \in Values :
        /\ arg' = [NoArg EXCEPT !.value = v]
        /\ out' = [NoOut EXCEPT !.ret = temporals_ever_le(ts1, v, TRUE)]
    /\ pc' = "done"
    /\ op' = "ever_le"
    /\ UNCHANGED <<sequences, normalize, ts1, ts2>>

\* temporals_always_lt(ts, value)
AlwaysLt ==
    /\ pc = "restrict"
    /\ \E v \in Values :
        /\ arg' = [NoArg EXCEPT !.value = v]
        /\ out' = [NoOut EXCEPT !.ret = temporals_always_lt(ts1, v, TRUE)]
    /\ pc' = "done"
    /\ op' = "always_lt"
    /\ UNCHANGED <<sequences, normalize, ts1, ts2>>

\* temporals_always_le(ts, value)
AlwaysLe ==
    /\ pc = "restrict"
    /\ \E v \in Values :
        /\ arg' = [NoArg EXCEPT !.value = v]
        /\ out' = [NoOut EXCEPT !.ret = temporals_always_le(ts1, v, TRUE)]
    /\ pc' = "done"
    /\ op' = "always_le"
    /\ UNCHANGED <<sequences, normalize, ts1, ts2>>

\* temporals_at_values(ts, values)
AtValues ==
    /\ pc = "restrict"
    /\ \E values \in ValueArrays :
        \E r \in {temporals_at_values(ts1, values)} :
            /\ arg' = [NoArg EXCEPT !.values = values]
            /\ out' = [NoOut EXCEPT !.err = r.err, !.errts = r.errts, !.ts = r.ts]
    /\ pc' = "done"
    /\ op' = "at_values"
    /\ UNCHANGED <<sequences, normalize, ts1, ts2>>

\* temporals_minus_values(ts, values)
MinusValues ==
    /\ pc = "restrict"
    /\ \E values \in ValueArrays :
        \E r \in {temporals_minus_values(ts1, values)} :
            /\ arg' = [NoArg EXCEPT !.values = values]
            /\ out' = [NoOut EXCEPT !.err = r.err, !.errts = r.errts, !.ts = r.ts]
    /\ pc' = "done"
    /\ op' = "minus_values"
    /\ UNCHANGED <<sequences, normalize, ts1, ts2>>

\* tnumbers_at_range(ts, range)
AtRange ==
    /\ pc = "restrict"
    /\ \E range \in Ranges :
        \E r \in {tnumbers_at_range(ts1, range)} :
            /\ arg' = [NoArg EXCEPT !.range = range]
            /\ out' = [NoOut EXCEPT !.err = r.err, !.errts = r.errts, !.ts = r.ts]
    /\ pc' = "done"
    /\ op' = "at_range"
    /\ UNCHANGED <<sequences, normalize, ts1, ts2>>

\* tnumbers_minus_range(ts, range)
MinusRange ==
    /\ pc = "restrict"
    /\ \E range \in Ranges :
        \E r \in {tnumbers_minus_range(ts1, range)} :
            /\ arg' = [NoArg EXCEPT !.range = range]
            /\ out' = [NoOut EXCEPT !.err = r.err, !.errts = r.errts, !.ts = r.ts]
    /\ pc' = "done"
    /\ op' = "minus_range"
    /\ UNCHANGED <<sequences, normalize, ts1, ts2>>

\* tnumbers_at_ranges(ts, normranges)
AtRanges ==
    /\ pc = "restrict"
    /\ \E normranges \in RangeArrays :
        \E r \in {tnumbers_at_ranges(ts1, normranges)} :
            /\ arg' = [NoArg EXCEPT !.ranges = normranges]
            /\ out' = [NoOut EXCEPT !.err = r.err, !.errts = r.errts, !.ts = r.ts]
    /\ pc' = "done"
    /\ op' = "at_ranges"
    /\ UNCHANGED <<sequences, normalize, ts1, ts2>>

\* tnumbers_minus_ranges(ts, normranges)
MinusRanges ==
    /\ pc = "restrict"
    /\ \E normranges \in RangeArrays :
        \E r \in {tnumbers_minus_ranges(ts1, normranges)} :
            /\ arg' = [NoArg EXCEPT !.ranges = normranges]
            /\ out' = [NoOut EXCEPT !.err = r.err, !.errts = r.errts, !.ts = r.ts]
    /\ pc' = "done"
    /\ op' = "minus_ranges"
    /\ UNCHANGED <<sequences, normalize, ts1, ts2>>

NextRestrict ==
    \/ MinusTimestamp
    \/ WriteRead
    \/ MakeNormalized
    \/ AtValue
    \/ MinusValue
    \/ EverEq
    \/ AlwaysEq
    \/ EverLt
    \/ EverLe
    \/ AlwaysLt
    \/ AlwaysLe
    \/ AtValues
    \/ MinusValues
    \/ AtRange
    \/ MinusRange
    \/ AtRanges
    \/ MinusRanges

SpecRestrict == InitRestrict /\ [][NextRestrict]_vars

\* temporals_eq(ts1, ts2)
TemporalsEq ==
    /\ pc = "compare"
    /\ \E r \in {temporals_eq(ts1, ts2)} :
        out' = [NoOut EXCEPT !.ret = r]
    /\ pc' = "done"
    /\ op' = "eq"
    /\ UNCHANGED <<sequences, normalize, ts1, ts2, arg>>

\* temporals_cmp(ts1, ts2)
TemporalsCmp ==
    /\ pc = "compare"
    /\ \E r \in {temporals_cmp(ts1, ts2)} :
        out' = [NoOut EXCEPT !.cmp = r]
    /\ pc' = "done"
    /\ op' = "cmp"
    /\ UNCHANGED <<sequences, normalize, ts1, ts2, arg>>

NextCompare == TemporalsEq \/ TemporalsCmp

SpecCompare == InitCompare /\ [][NextCompare]_vars

\* temporals_hash(ts)
TemporalsHash ==
    /\ pc = "hash"
    /\ \E r \in {temporals_hash(arg.hashes)} :
        out' = [NoOut EXCEPT !.hash = r]
    /\ pc' = "done"
    /\ op' = "hash"
    /\ UNCHANGED <<sequences, normalize, ts1, ts2, arg>>

NextHash == TemporalsHash

SpecHash == InitHash /\ [][NextHash]_vars

\* temporals_instant_n(ts, n), in a build with or without assertions
InstantN ==
    /\ pc = "access"
    /\ \E n \in -1 .. ts1.totalcount + 1, cassert \in BOOLEAN :
        \E r \in {temporals_instant_n(ts1, n, cassert)} :
            /\ arg' = [NoArg EXCEPT !.n = n]
            /\ out' = [NoOut EXCEPT !.err = r.err, !.ret = r.found, !.inst = r.inst]
    /\ pc' = "done"
    /\ op' = "instant_n"
    /\ UNCHANGED <<sequences, normalize, ts1, ts2>>

\* temporals_timestamp_n(ts, n, &result)
TimestampN ==
    /\ pc = "access"
    /\ \E n \in -1 .. ts1.totalcount + 1 :
        \E r \in {temporals_timestamp_n(ts1, n)} :
            /\ arg' = [NoArg EXCEPT !.n = n]
            /\ out' = [NoOut EXCEPT !.ret = r.found, !.loc = r.t]
    /\ pc' = "done"
    /\ op' = "timestamp_n"
    /\ UNCHANGED <<sequences, normalize, ts1, ts2>>

NextAccess == InstantN \/ TimestampN

SpecAccess == InitAccess /\ [][NextAccess]_vars

\* temporals_make(sequences, count, false) on sequences with tags
MakeTagged ==
    /\ pc = "kinds"
    /\ \E r \in {temporals_make_tagged(sequences)} :
        out' = [NoOut EXCEPT !.err = r.err, !.ts = r.ts, !.header = r.header]
    /\ pc' = "done"
    /\ op' = "make_tagged"
    /\ UNCHANGED <<sequences, normalize, ts1, ts2, arg>>

NextKinds == MakeTagged

SpecKinds == InitKinds /\ [][NextKinds]_vars

\* temporals_make(sequences, count, normalize), with the buffer it fills
MakeLayout ==
    /\ pc = "layout"
    /\ \E r \in {temporals_make_mem(sequences, normalize, arg.bboxsize)} :
        out' = [NoOut EXCEPT !.err = r.err, !.errts = r.errts, !.ts = r.ts,
                             !.mem = r.mem]
    /\ pc' = "laid"
    /\ op' = "make_layout"
    /\ UNCHANGED <<sequences, normalize, ts1, ts2, arg>>

\* temporals_append_instant(ts, inst) on the buffer just built
AppendLayout ==
    /\ pc = "laid"
    /\ out.err = ""
    /\ \E t \in Times, v \in Values :
        \E r \in {temporals_append_instant_mem(out.ts, out.mem,
                                               temporalinst_make(v, t), arg.bboxsize)} :
            /\ ts1' = out.ts
            /\ arg' = [arg EXCEPT !.inst = temporalinst_make(v, t)]
            /\ out' = [NoOut EXCEPT !.err = r.err, !.errts = r.errts, !.ts = r.ts,
                                    !.mem = r.mem]
    /\ pc' = "done"
    /\ op' = "append_layout"
    /\ UNCHANGED <<sequences, normalize, ts2>>

NextLayout == MakeLayout \/ AppendLayout

SpecLayout == InitLayout /\ [][NextLayout]_vars

\* temporals_at_timestamp(ts, t)
AtTimestamp ==
    /\ pc = "window"
    /\ \E t \in Times :
        /\ arg' = [NoArg EXCEPT !.t = t]
        /\ out' = [NoOut EXCEPT !.inst = temporals_at_timestamp(ts1, t)]
    /\ pc' = "done"
    /\ op' = "at_timestamp"
    /\ UNCHANGED <<sequences, normalize, ts1, ts2>>

\* temporals_at_timestampset(ts1, ts2)
AtTimestampset ==
    /\ pc = "window"
    /\ \E tset \in TimestampSets :
        /\ arg' = [NoArg EXCEPT !.tset = tset]
        /\ out' = [NoOut EXCEPT !.insts1 = temporals_at_timestampset(ts1, tset)]
    /\ pc' = "done"
    /\ op' = "at_timestampset"
    /\ UNCHANGED <<sequences, normalize, ts1, ts2>>

\* temporals_minus_timestampset(ts1, ts2)
MinusTimestampset ==
    /\ pc = "window"
    /\ \E tset \in TimestampSets :
        \E r \in {temporals_minus_timestampset(ts1, tset)} :
            /\ arg' = [NoArg EXCEPT !.tset = tset]
            /\ out' = [NoOut EXCEPT !.err = r.err, !.errts = r.errts, !.ts = r.ts]
    /\ pc' = "done"
    /\ op' = "minus_timestampset"
    /\ UNCHANGED <<sequences, normalize, ts1, ts2>>

\* temporals_minus_period(ts, p)
MinusPeriod ==
    /\ pc = "window"
    /\ \E p \in AllPeriods :
        \E r \in {temporals_minus_period(ts1, p)} :
            /\ arg' = [NoArg EXCEPT !.p = p]
            /\ out' = [NoOut EXCEPT !.err = r.err, !.errts = r.errts, !.ts = r.ts]
    /\ pc' = "done"
    /\ op' = "minus_period"
    /\ UNCHANGED <<sequences, normalize, ts1, ts2>>

\* temporals_at_periodset(ts, ps)
AtPeriodset ==
    /\ pc = "window"
    /\ \E ps \in PeriodSets :
        \E r \in {temporals_at_periodset(ts1, ps)} :
            /\ arg' = [NoArg EXCEPT !.ps = ps]
            /\ out' = [NoOut EXCEPT !.err = r.err, !.errts = r.errts, !.ts = r.ts]
    /\ pc' = "done"
    /\ op' = "at_periodset"
    /\ UNCHANGED <<sequences, normalize, ts1, ts2>>

\* temporals_minus_periodset(ts, ps)
MinusPeriodset ==
    /\ pc = "window"
    /\ \E ps \in PeriodSets :
        \E r \in {temporals_minus_periodset(ts1, ps)} :
            /\ arg' = [NoArg EXCEPT !.ps = ps]
            /\ out' = [NoOut EXCEPT !.err = r.err, !.errts = r.errts, !.ts = r.ts]
    /\ pc' = "done"
    /\ op' = "minus_periodset"
    /\ UNCHANGED <<sequences, normalize, ts1, ts2>>

NextWindow ==
    \/ AtPeriod
    \/ AtTimestamp
    \/ AtTimestampset
    \/ MinusTimestampset
    \/ MinusPeriod
    \/ AtPeriodset
    \/ MinusPeriodset
    \/ IntersectionTI

SpecWindow == InitWindow /\ [][NextWindow]_vars

\* The operations with a merge loop: the binary operations and the
\* restrictions to times.
\* The restriction operators: to values and ranges, and to times.
SpecRestriction == (InitRestrict \/ InitWindow) /\ [][NextRestrict \/ NextWindow]_vars

SpecMerge == (InitBinary \/ InitWindow) /\ [][NextBinary \/ NextWindow]_vars

Next == NextBuild \/ NextUnary \/ NextBinary \/ NextRestrict \/ NextCompare \/ NextHash
        \/ NextAccess
        \/ NextKinds
        \/ NextLayout
        \/ NextWindow

Spec == Init /\ [][Next]_vars

\* The operations that return sequence sets: the builder, the restrictions,
\* the intersections and the synchronizations.
SpecSets == (InitBuild \/ InitUnary \/ InitBinary \/ InitRestrict \/ InitWindow \/ InitKinds) /\ [][NextBuild \/ NextUnary \/ NextBinary \/ NextRestrict \/ NextWindow \/ NextKinds]_vars

(***************************************************************************)
(* Properties.                                                             *)
(***************************************************************************)
\* The sequences of ts are time-ordered: adjacent periods are apart, or touch
\* with at most one of the two bounds inclusive.
OrderedSet(ts) ==
    \A i \in 1 .. Len(ts.seqs) - 1 :
        LET a == ts.seqs[i].period
            b == ts.seqs[i + 1].period
        IN  \/ a.upper < b.lower
            \/ (a.upper = b.lower /\ ~(a.upper_inc /\ b.lower_inc))

\* Timestamp t belongs to period p.
InPeriod(p, t) == (2 * t) \in Cover(p)

\* C1: every sequence set an operation returns (temporals_make with or
\* without normalization, append_instant, at_period, the intersections and
\* the synchronization) is time-ordered.
C1_OrderingInvariant ==
    /\ OrderedSet(out.ts)
    /\ OrderedSet(out.inter1)
    /\ OrderedSet(out.inter2)

\* C1 witness: a normalizing temporals_make merged two of three sequences and
\* returned two sequences that touch.
C1_Witness ==
    /\ op = "make"
    /\ normalize
    /\ Len(sequences) = 3
    /\ out.ts.count = 2
    /\ out.ts.seqs[1].period.upper = out.ts.seqs[2].period.lower

\* The input array has an offending pair at C indexes i - 1, i.
Offending(arr, i) ==
    \/ arr[i].period.upper > arr[i + 1].period.lower
    \/ /\ arr[i].period.upper = arr[i + 1].period.lower
       /\ arr[i].period.upper_inc
       /\ arr[i + 1].period.lower_inc

C3_LocatorCorrect ==
    op = "find_timestamp" =>
        LET t == arg.t
            n == ts1.count
            P(i) == ts1.seqs[i + 1].period
        IN  /\ out.ret <=> (\E i \in 0 .. n - 1 : InPeriod(P(i), t))
            /\ out.ret => (out.loc \in 0 .. n - 1 /\ InPeriod(P(out.loc), t))
            /\ ~out.ret =>
                /\ out.loc \in 0 .. n
                /\ (\A i \in 0 .. n - 1 : t <= P(i).lower) => out.loc = 0
                /\ (\A i \in 0 .. n - 1 : t >= P(i).upper) => out.loc = n
                /\ out.loc > 0 => P(out.loc - 1).upper <= t
                /\ out.loc < n => t <= P(out.loc).lower

\* C3 witness: a miss located in the gap between the last two of three
\* sequences.
C3_Witness ==
    /\ op = "find_timestamp"
    /\ ts1.count = 3
    /\ ~out.ret
    /\ out.loc = 2

\* C4: intersection_temporals_temporals returns true, with both outputs
\* non-empty, exactly when some instant is covered by a sequence of each
\* operand; it returns false otherwise, raising no error.
C4_IntersectionIff ==
    op = "intersection_temporals_temporals" =>
        /\ out.err = ""
        /\ out.ret <=> (Time(ts1) \cap Time(ts2) # {})
        /\ out.ret <=> (out.inter1 # NoTS /\ out.inter2 # NoTS)
        /\ ~overlaps_period_period_internal(temporals_period(ts1), temporals_period(ts2))
            => ~out.ret

\* C4 witness: the bounding periods overlap, the merge-join runs over two
\* sequences on each side and finds no common instant.
C4_Witness ==
    /\ op = "intersection_temporals_temporals"
    /\ ts1.count = 2
    /\ ts2.count = 2
    /\ overlaps_period_period_internal(temporals_period(ts1), temporals_period(ts2))
    /\ ~out.ret

\* C5: when the intersection or the synchronization of two sets succeeds,
\* the time domain of each output is the intersection of the time domains of
\* the operands.
C5_OutputsCoverCommonTime ==
    (op \in {"intersection_temporals_temporals", "synchronize_temporals_temporals"}
     /\ out.ret) =>
        /\ Time(out.inter1) = Time(ts1) \cap Time(ts2)
        /\ Time(out.inter2) = Time(ts1) \cap Time(ts2)

\* C6: temporals_intersects_period returns true exactly when some instant
\* belongs to p and to the period of a sequence of the set.
C6_IntersectsPeriodIff ==
    op = "intersects_period" =>
        (out.ret <=> (Cover(arg.p) \cap Time(ts1) # {}))

\* C7: temporals_intersects_timestamp returns true exactly when t is in the
\* period of a sequence of the set, and temporals_intersects_timestampset
\* exactly when one timestamp of the set is.
C7_IntersectsTimestampIff ==
    /\ op = "intersects_timestamp" => (out.ret <=> (2 * arg.t) \in Time(ts1))
    /\ op = "intersects_timestampset" =>
        (out.ret <=> (\E k \in DOMAIN arg.tset : (2 * arg.tset[k]) \in Time(ts1)))

\* C8: intersection_temporals_temporali returns false exactly when no
\* instant of the instant set is covered by the set; when it returns true
\* each output holds one instant per covered timestamp of the instant set,
\* in increasing time order.
C8_InstantSetIntersection ==
    op = "intersection_temporals_temporali" =>
        LET covered == {arg.ti[k].t : k \in {j \in DOMAIN arg.ti :
                                                (2 * arg.ti[j].t) \in Time(ts1)}}
            Stamps(is) == {is[k].t : k \in DOMAIN is}
            Increasing(is) == \A k \in 1 .. Len(is) - 1 : is[k].t < is[k + 1].t
        IN  /\ ~out.ret <=> (covered = {})
            /\ out.ret =>
                /\ Stamps(out.insts1) = covered /\ Increasing(out.insts1)
                /\ Stamps(out.insts2) = covered /\ Increasing(out.insts2)

\* C9: when intersection_temporals_temporalseq returns true both outputs
\* have the time domain time(S) \cap seq.period, inter1 carries the values of
\* S and inter2 the values of seq; it returns false exactly when S and seq
\* share no instant.
C9_SeqIntersection ==
    op = "intersection_temporals_temporalseq" =>
        LET common == Time(ts1) \cap Cover(arg.seq.period)
            ValuesOf(ts) == UNION {{ts.seqs[i].insts[k].value :
                                      k \in DOMAIN ts.seqs[i].insts} :
                                   i \in DOMAIN ts.seqs}
            SValues == ValuesOf(ts1)
            SeqValues == {arg.seq.insts[k].value : k \in DOMAIN arg.seq.insts}
        IN  /\ ~out.ret <=> (common = {})
            /\ out.ret =>
                /\ Time(out.inter1) = common
                /\ Time(out.inter2) = common
                /\ ValuesOf(out.inter1) \subseteq SValues
                /\ ValuesOf(out.inter2) \subseteq SeqValues

\* The number of instants held by the sequences of ts.
InstantCount(ts) ==
    Cardinality({x \in (DOMAIN ts.seqs) \X (1 .. MaxT + 1) :
                    x[2] <= Len(ts.seqs[x[1]].insts)})

\* C10: the totalcount of a set returned by temporals_make or by
\* temporals_append_instant is the sum of the instant counts of its sequences.
C10_TotalCount ==
    (op \in {"make", "append_instant"} /\ out.err = "") =>
        out.ts.totalcount = InstantCount(out.ts)

\* C10 witness: an instant appended to a set of two touching sequences, which
\* share their boundary instant.
C10_Witness ==
    /\ op = "append_instant"
    /\ out.err = ""
    /\ ts1.count = 2
    /\ ts1.seqs[1].period.upper = ts1.seqs[2].period.lower
    /\ out.ts.totalcount = ts1.totalcount + 1

\* The union of the boxes of the sequences of an array: the least and the
\* greatest value and timestamp over all their instants.
InstsOf(seqs) == UNION {{seqs[i].insts[k] : k \in DOMAIN seqs[i].insts} : i \in DOMAIN seqs}

BoxUnion(seqs) ==
    LET vs == {i.value : i \in InstsOf(seqs)}
        tt == {i.t : i \in InstsOf(seqs)}
    IN  [xmin |-> CHOOSE v \in vs : \A w \in vs : ~datum_lt(w, v),
         xmax |-> CHOOSE v \in vs : \A w \in vs : ~datum_lt(v, w),
         tmin |-> CHOOSE t \in tt : \A u \in tt : t <= u,
         tmax |-> CHOOSE t \in tt : \A u \in tt : t >= u]

\* C11: the trailing box of every set produced by temporals_make or
\* temporals_append_instant is the union of the boxes of its sequences; the
\* box append_instant obtains by expansion is the box recomputed from the
\* resulting sequences.
C11_BoxIsUnion ==
    (op \in {"make", "append_instant"} /\ out.err = "")
        => /\ out.ts.bbox = BoxUnion(out.ts.seqs)
           /\ out.ts.bbox = temporals_make_bbox(out.ts.seqs)

\* An append that enlarges the box in value and in time.
C11_Witness ==
    /\ op = "append_instant"
    /\ out.err = ""
    /\ out.ts.bbox.xmax # ts1.bbox.xmax
    /\ out.ts.bbox.tmax > ts1.bbox.tmax
    /\ out.ts.count > 1

\* C12: temporals_append_instant returns a set with the count of its input,
\* whose sequences but the last are those of the input in the same order and
\* whose last sequence is the last sequence of the input extended by the
\* instant, its period ending at the instant's timestamp; the input set is
\* still the set that temporals_make built.
C12_AppendFrame ==
    (op = "append_instant" /\ out.err = "")
        => /\ out.ts.count = ts1.count
           /\ Len(out.ts.seqs) = ts1.count
           /\ \A i \in 1 .. ts1.count - 1 : out.ts.seqs[i] = ts1.seqs[i]
           /\ Last(out.ts.seqs) = temporalseq_append_instant(Last(ts1.seqs), arg.inst)
           /\ Last(out.ts.seqs).period.upper = arg.inst.t
           /\ ts1 = temporals_make(sequences, normalize).ts
           /\ ts1.totalcount = InstantCount(ts1)
           /\ ts1.bbox = BoxUnion(ts1.seqs)

\* An append to a set of several sequences.
C12_Witness ==
    /\ op = "append_instant"
    /\ out.err = ""
    /\ ts1.count >= 2
    /\ Last(out.ts.seqs).period.upper > Last(ts1.seqs).period.upper

\* The C index of the sequence of ts that has t strictly inside its period,
\* -1 when there is none.
InteriorIndex(ts, t) ==
    IF \E i \in 0 .. ts.count - 1 :
          ts.seqs[i + 1].period.lower < t /\ t < ts.seqs[i + 1].period.upper
    THEN CHOOSE i \in 0 .. ts.count - 1 :
          ts.seqs[i + 1].period.lower < t /\ t < ts.seqs[i + 1].period.upper
    ELSE -1

Covered(ts, t) == \E i \in 1 .. ts.count : InPeriod(ts.seqs[i].period, t)

\* temporals_minus_timestamp at a timestamp strictly inside sequence i splits
\* that sequence in two and copies the others in order; at a timestamp no
\* sequence covers the result is the input.
MinusTimestampShape ==
    LET i == InteriorIndex(ts1, arg.t)
    IN  /\ (i >= 0) =>
            /\ out.err = ""
            /\ out.ts.count = ts1.count + 1
            /\ Len(out.ts.seqs) = ts1.count + 1
            /\ \A j \in 1 .. i : out.ts.seqs[j] = ts1.seqs[j]
            /\ \A j \in i + 2 .. ts1.count : out.ts.seqs[j + 1] = ts1.seqs[j]
            /\ out.ts.seqs[i + 1].period =
                   period_set(ts1.seqs[i + 1].period.lower, arg.t,
                              ts1.seqs[i + 1].period.lower_inc, FALSE)
            /\ out.ts.seqs[i + 2].period =
                   period_set(arg.t, ts1.seqs[i + 1].period.upper,
                              FALSE, ts1.seqs[i + 1].period.upper_inc)
            /\ Time(out.ts) = Time(ts1) \ {2 * arg.t}
        /\ ~Covered(ts1, arg.t) => (out.err = "" /\ out.ts = ts1)

\* C13 as stated: the split leaves totalcount as it was.
C13_MinusTimestampKeepsTotalCount ==
    (op = "minus_timestamp")
        => /\ MinusTimestampShape
           /\ InteriorIndex(ts1, arg.t) >= 0 => out.ts.totalcount = ts1.totalcount

\* C13 amended: the split is as stated, but both fragments carry an instant
\* at t, so totalcount (the sum of the instant counts of the result) grows
\* by 1 when the split sequence has an instant at t and by 2 otherwise.
C13_MinusTimestampSplit ==
    (op = "minus_timestamp")
        => /\ MinusTimestampShape
           /\ InteriorIndex(ts1, arg.t) >= 0 =>
                /\ out.ts.totalcount = InstantCount(out.ts)
                /\ out.ts.totalcount = ts1.totalcount +
                      (IF \E k \in DOMAIN ts1.seqs[InteriorIndex(ts1, arg.t) + 1].insts :
                             ts1.seqs[InteriorIndex(ts1, arg.t) + 1].insts[k].t = arg.t
                       THEN 1 ELSE 2)

\* A split at an interior instant of a three-instant sequence that has a
\* sequence before it.
C13_Witness ==
    /\ op = "minus_timestamp"
    /\ InteriorIndex(ts1, arg.t) = 1
    /\ Len(ts1.seqs[2].insts) = 3
    /\ out.ts.count = ts1.count + 1

\* C14: temporals_cmp is a total order: cmp(a, a) = 0, cmp(a, b) = -cmp(b, a)
\* (never -1 both ways), and cmp(a, b) <= 0 with cmp(b, c) <= 0 gives
\* cmp(a, c) <= 0.
C14_CmpTotalOrder ==
    (op = "cmp")
        => /\ out.cmp \in {-1, 0, 1}
           /\ temporals_cmp(ts1, ts1) = 0
           /\ temporals_cmp(ts2, ts2) = 0
           /\ out.cmp = -temporals_cmp(ts2, ts1)
           /\ \A c \in SetsC :
                (out.cmp <= 0 /\ temporals_cmp(ts2, c) <= 0) => temporals_cmp(ts1, c) <= 0

\* The sequences of a and b are equal over the shorter common length.
CommonPrefixEqual(a, b) ==
    \A i \in 1 .. Min(a.count, b.count) : a.seqs[i] = b.seqs[i]

\* Neither branch of the test on the inclusivity of the first lower and the
\* last upper bound of temporals_cmp is taken.
PassBoundTest(a, b) ==
    /\ a.seqs[1].period.lower_inc = b.seqs[1].period.lower_inc
    /\ Last(a.seqs).period.upper_inc = Last(b.seqs).period.upper_inc

\* C15 as stated: past the bound test and with equal sequences over the
\* common length the set with fewer sequences sorts first; cmp is 0 only for
\* sets of the same count, and exactly when temporals_eq holds.
C15_CmpCountTieBreak ==
    (op = "cmp")
        => /\ (PassBoundTest(ts1, ts2) /\ CommonPrefixEqual(ts1, ts2))
                => out.cmp = timestamp_cmp_internal(ts1.count, ts2.count)
           /\ (out.cmp = 0) => ts1.count = ts2.count
           /\ (out.cmp = 0) <=> temporals_eq(ts1, ts2)

\* C15 amended: past the bound test and with equal sequences over the common
\* length cmp is 0 whatever the counts; for sets with equal bounding boxes
\* (the precondition temporals_cmp documents) cmp is 0 only for sets of the
\* same count, and exactly when temporals_eq holds.
C15_CmpZeroUnderEqualBoxes ==
    (op = "cmp")
        => /\ (PassBoundTest(ts1, ts2) /\ CommonPrefixEqual(ts1, ts2)) => out.cmp = 0
           /\ temporal_bbox_eq(ts1.bbox, ts2.bbox) =>
                /\ (out.cmp = 0) => ts1.count = ts2.count
                /\ (out.cmp = 0) <=> temporals_eq(ts1, ts2)

\* Two different sets with equal boxes, and two sets of different counts
\* that are equal over the common length.
C15_Witness ==
    /\ op = "cmp"
    /\ temporal_bbox_eq(ts1.bbox, ts2.bbox)
    /\ ts1.count # ts2.count
    /\ out.cmp # 0
    /\ \E c \in SetsC : /\ c.count # ts1.count
                         /\ PassBoundTest(ts1, c)
                         /\ CommonPrefixEqual(ts1, c)

\* C16: temporals_eq is true exactly for sets of the same count with equal
\* sequences at every index; the count, flags and box tests reject no such
\* pair; temporals_eq is reflexive and symmetric.
C16_EqIffSameSequences ==
    (op = "eq")
        => /\ out.ret <=> (ts1.count = ts2.count
                            /\ \A i \in 1 .. ts1.count : ts1.seqs[i] = ts2.seqs[i])
           /\ temporals_eq(ts1, ts1)
           /\ temporals_eq(ts2, ts2)
           /\ out.ret = temporals_eq(ts2, ts1)

\* Two sets that differ in their last sequence only, and two equal sets.
C16_Witness ==
    /\ op = "eq"
    /\ ts1.count >= 2
    /\ ts1.count = ts2.count
    /\ ts1.bbox = ts2.bbox
    /\ \A i \in 1 .. ts1.count - 1 : ts1.seqs[i] = ts2.seqs[i]
    /\ ~out.ret

\* The binary forms of the sequences of ts from element i on, one after the
\* other.
RECURSIVE SeqForms(_, _)
SeqForms(ts, i) ==
    IF i > Len(ts.seqs) THEN <<>>
    ELSE temporalseq_write(ts.seqs[i]) \o SeqForms(ts, i + 1)

\* C17: reading what temporals_write wrote gives a set equal to the one
\* written under temporals_eq, with the same count, sequences, totalcount
\* and box; the written form is the count followed by each sequence in order,
\* and reading raises no ordering error and does not normalize.
C17_RoundTrip ==
    (op = "write_read")
        => /\ out.err = ""
           /\ out.ts # NoTS
           /\ temporals_eq(out.ts, ts1)
           /\ out.ts.count = ts1.count
           /\ out.ts.seqs = ts1.seqs
           /\ out.ts.totalcount = ts1.totalcount
           /\ out.ts.bbox = ts1.bbox
           /\ out.buf[1] = ts1.count
           /\ out.buf = <<ts1.count>> \o SeqForms(ts1, 1)

\* A round trip of a set with two sequences that normalization would merge.
C17_Witness ==
    /\ op = "write_read"
    /\ ts1.count = 2
    /\ Mergeable(ts1.seqs[1], ts1.seqs[2])
    /\ Len(ts1.seqs[2].insts) >= 2
    /\ out.ts.count = 2

\* 31 * acc + h modulo 2^32, on the halves.
Times31Plus(acc, h) ==
    U32((31 * acc.hi + h.hi + (31 * acc.lo + h.lo) \div Half) % Half,
        (31 * acc.lo + h.lo) % Half)

\* The fold acc := 31 * acc + h modulo 2^32 over a list of hashes, from 1.
RECURSIVE Fold31(_, _, _)
Fold31(hs, i, acc) ==
    IF i > Len(hs) THEN acc
    ELSE Fold31(hs, i + 1, Times31Plus(acc, hs[i]))

\* The list hs with elements i and j exchanged.
Exchange(hs, i, j) == [hs EXCEPT ![i] = hs[j], ![j] = hs[i]]

\* The hash temporalseq_hash returns for a sequence of ts1.
SeqHash(seq) == arg.hashes[CHOOSE i \in 1 .. ts1.count : ts1.seqs[i] = seq]

HashOf(ts) == temporals_hash([i \in 1 .. ts.count |-> SeqHash(ts.seqs[i])])

\* The hash is the fold from 1 with 32-bit wrap-around, it is the same after
\* a write and read, and it is the same for sets that temporals_eq finds
\* equal.
HashIsFold ==
    /\ out.hash.hi \in 0 .. Half - 1
    /\ out.hash.lo \in 0 .. Half - 1
    /\ out.hash = Fold31(arg.hashes, 1, U32(0, 1))
    /\ \E rt \in {temporals_read(temporals_write(ts1)).ts} :
          /\ temporals_eq(ts1, rt)
          /\ HashOf(rt) = out.hash

\* C18 as stated: the hash is the fold, stable under write and read and
\* under temporals_eq, and exchanging two sequences whose hashes differ
\* changes it.
C18_HashOrderSensitive ==
    (op = "hash")
        => /\ HashIsFold
           /\ \A i, j \in 1 .. ts1.count :
                (arg.hashes[i] # arg.hashes[j])
                    => temporals_hash(Exchange(arg.hashes, i, j)) # out.hash

\* C18 amended: arithmetic is modulo 2^32, so exchanging two adjacent
\* sequences changes the hash exactly when their hashes do not differ by a
\* multiple of 2^31.
C18_HashFold ==
    (op = "hash")
        => /\ HashIsFold
           /\ \A i \in 1 .. ts1.count - 1 :
                (temporals_hash(Exchange(arg.hashes, i, i + 1)) # out.hash)
                    <=> ~(/\ arg.hashes[i].lo = arg.hashes[i + 1].lo
                          /\ (arg.hashes[i].hi + Half - arg.hashes[i + 1].hi)
                                % (Half \div 2) = 0)

\* A hash that wrapped around, of two sequences whose hashes differ by 2^31:
\* 31 * (31 + 2^31) + 0 = 961 + 2^31 modulo 2^32.
C18_Witness ==
    /\ op = "hash"
    /\ ts1.count = 2
    /\ arg.hashes[1] = U32(Half \div 2, 0)
    /\ arg.hashes[2] = U32(0, 0)
    /\ out.hash = U32(Half \div 2, 961)
    /\ temporals_hash(Exchange(arg.hashes, 1, 2)) = out.hash

\* The value a list of sequences takes at atom x of its time domain: at
\* timestamp t for x = 2t, between t and t + 1 for x = 2t + 1.
ValueAtAtom(seqs, x) ==
    LET i == CHOOSE k \in DOMAIN seqs : x \in Cover(seqs[k].period)
    IN  temporalseq_value_at_timestamp(seqs[i], x \div 2)

SameFunction(seqs1, seqs2) ==
    /\ SeqsTime(seqs1) = SeqsTime(seqs2)
    /\ \A x \in SeqsTime(seqs1) : ValueAtAtom(seqs1, x) = ValueAtAtom(seqs2, x)

\* C19: normalizing a normalized array changes nothing; normalization does
\* not increase the number of sequences and changes neither the time domain
\* nor the values; temporals_make with normalize = true on the sequences of
\* a set built with normalize = true returns an equal set.
C19_NormalizeIdempotent ==
    (op = "make_normalized")
        => /\ out.err = ""
           /\ temporalseqarr_normalize(out.ts.seqs) = out.ts.seqs
           /\ temporalseqarr_normalize(temporalseqarr_normalize(ts1.seqs))
                = temporalseqarr_normalize(ts1.seqs)
           /\ out.ts.count <= ts1.count
           /\ SameFunction(out.ts.seqs, ts1.seqs)
           /\ \A i \in 1 .. out.ts.count - 1 :
                ~Mergeable(out.ts.seqs[i], out.ts.seqs[i + 1])
           /\ \E r \in {temporals_make(out.ts.seqs, TRUE)} :
                /\ r.err = ""
                /\ r.ts = out.ts
                /\ temporals_eq(r.ts, out.ts)

\* Two sequences with a change of value inside, merged into one.
C19_Witness ==
    /\ op = "make_normalized"
    /\ ts1.count = 2
    /\ out.ts.count = 1
    /\ \E k \in DOMAIN out.ts.seqs[1].insts :
          out.ts.seqs[1].insts[k].value # out.ts.seqs[1].insts[1].value

\* The complement law between a restriction to a value (at) and the
\* restriction to its complement (minus) of the set ts.
Complement(ts, at, minus) ==
    /\ (at # NoTS /\ minus # NoTS)
          => /\ Time(at) \cap Time(minus) = {}
             /\ Time(at) \cup Time(minus) = Time(ts)
    /\ (at = NoTS) => (minus # NoTS /\ Time(minus) = Time(ts))
    /\ (minus = NoTS) => (at # NoTS /\ Time(at) = Time(ts))

\* C20: the time domains of temporals_at_value(S, v) and
\* temporals_minus_value(S, v) are disjoint and their union is the time
\* domain of S; when one of them is absent the other has the time domain of
\* S.  The restriction to v takes the value v on all its time domain, the
\* complement never does.
C20_ValueComplement ==
    /\ (op = "at_value")
          => /\ out.err = ""
             /\ Complement(ts1, out.ts, temporals_minus_value(ts1, arg.value).ts)
             /\ \A x \in Time(out.ts) :
                    /\ ValueAtAtom(out.ts.seqs, x) = arg.value
                    /\ ValueAtAtom(ts1.seqs, x) = arg.value
    /\ (op = "minus_value")
          => /\ out.err = ""
             /\ Complement(ts1, temporals_at_value(ts1, arg.value).ts, out.ts)
             /\ \A x \in Time(out.ts) :
                    /\ ValueAtAtom(out.ts.seqs, x) # arg.value
                    /\ ValueAtAtom(ts1.seqs, x) = ValueAtAtom(out.ts.seqs, x)

\* A restriction to a value that two sequences take on part of their time,
\* with a non-empty complement.
C20_Witness ==
    /\ op = "at_value"
    /\ ts1.count = 2
    /\ out.ts # NoTS
    /\ temporals_minus_value(ts1, arg.value).ts # NoTS
    /\ Time(out.ts) \cap Cover(ts1.seqs[1].period) # {}
    /\ Time(out.ts) \cap Cover(ts1.seqs[2].period) # {}
    /\ Time(out.ts) # Time(ts1)

\* The cursor pairs <<i, j>> the set x set merge-join visits from <<i, j>>.
RECURSIVE MergeVisited(_, _, _, _)
MergeVisited(ts1_, ts2_, i, j) ==
    IF ~(i < ts1_.count /\ j < ts2_.count) THEN {}
    ELSE LET d == MergeAdvance(temporals_seq_n(ts1_, i).period,
                               temporals_seq_n(ts2_, j).period)
         IN  {<<i, j>>} \cup MergeVisited(ts1_, ts2_, i + d[1], j + d[2])

\* The cursor step that advances the period ending first: both cursors when
\* the periods end together with the same inclusivity, else the one whose
\* upper bound is exclusive.
EndsFirstAdvance(p1, p2) ==
    LET cmp == timestamp_cmp_internal(p1.upper, p2.upper)
    IN  IF cmp = 0 /\ p1.upper_inc = p2.upper_inc THEN <<1, 1>>
        ELSE IF cmp < 0 \/ (cmp = 0 /\ ~p1.upper_inc) THEN <<1, 0>>
        ELSE <<0, 1>>

\* C24: at every step of the merge-join of intersection_temporals_temporals
\* and synchronize_temporals_temporals the cursor whose period ends first is
\* advanced (both when they end together with the same inclusivity, else the
\* exclusive one), and no cursor leaves a sequence that overlaps a later
\* sequence of the other operand.
C24_AdvanceEndsFirst ==
    (op \in {"intersection_temporals_temporals", "synchronize_temporals_temporals"}
     /\ overlaps_period_period_internal(temporals_period(ts1), temporals_period(ts2)))
    => \A v \in MergeVisited(ts1, ts2, 0, 0) :
          LET p1 == temporals_seq_n(ts1, v[1]).period
              p2 == temporals_seq_n(ts2, v[2]).period
              d == MergeAdvance(p1, p2)
          IN  /\ d = EndsFirstAdvance(p1, p2)
              /\ d[1] = 1 =>
                    \A j \in v[2] + 1 .. ts2.count - 1 :
                        ~overlaps_period_period_internal(p1, temporals_seq_n(ts2, j).period)
              /\ d[2] = 1 =>
                    \A i \in v[1] + 1 .. ts1.count - 1 :
                        ~overlaps_period_period_internal(temporals_seq_n(ts1, i).period, p2)

\* C28: when the bounding-period test of temporals_at_period (general case)
\* or of synchronize_temporals_temporalseq passes, the index found for the
\* lower bound is an index of the set, 0 <= loc < count, so the count - loc
\* slots are at least one and hold every fragment the scan from loc collects.
C28_LocInRange ==
    /\ (op = "at_period" /\ ts1.count > 1
        /\ overlaps_period_period_internal(temporals_period(ts1), arg.p))
          => LET loc == AtPeriodLoc(ts1, arg.p)
             IN  /\ 0 <= loc
                 /\ loc < ts1.count
                 /\ Len(AtPeriodScan(ts1, arg.p, loc)) <= ts1.count - loc
    /\ (op = "synchronize_temporals_temporalseq"
        /\ overlaps_period_period_internal(arg.seq.period, temporals_period(ts1)))
          => LET loc == SyncTSeqLoc(ts1, arg.seq)
             IN  /\ 0 <= loc
                 /\ loc < ts1.count
                 /\ Len(SyncTSeqLoop(ts1, arg.seq, FALSE, loc)) <= ts1.count - loc

\* A period that starts at the exclusive upper bound of the next to last
\* sequence: the scan starts at the last sequence.
C28_Witness ==
    /\ op = "at_period"
    /\ ts1.count = 3
    /\ overlaps_period_period_internal(temporals_period(ts1), arg.p)
    /\ arg.p.lower = temporals_seq_n(ts1, 1).period.upper
    /\ ~temporals_seq_n(ts1, 1).period.upper_inc
    /\ AtPeriodLoc(ts1, arg.p) = ts1.count - 1
    /\ out.ts # NoTS

\* The number of distinct instants of the set, and its distinct timestamps
\* in increasing order.
NumDistinctInstants(ts) == Cardinality(InstsOf(ts.seqs))

DistinctTimestamps(ts) ==
    LET stamps == {inst.t : inst \in InstsOf(ts.seqs)}
        F[k \in 0 .. MaxT + 1] ==
            IF k = 0 THEN <<>>
            ELSE IF (k - 1) \in stamps THEN Append(F[k - 1], k - 1) ELSE F[k - 1]
    IN  F[MaxT + 1]

\* The part of C22 on temporals_timestamp_n alone.
TimestampNExact ==
    op = "timestamp_n"
      => /\ out.ret = (1 <= arg.n /\ arg.n <= temporals_num_timestamps(ts1))
         /\ temporals_num_timestamps(ts1) = Len(DistinctTimestamps(ts1))
         /\ out.ret => /\ arg.n \in DOMAIN DistinctTimestamps(ts1)
                        /\ out.loc = DistinctTimestamps(ts1)[arg.n]

\* The assertion of temporals_instant_n fails only outside 1 .. totalcount,
\* and without it the function reports absent outside the distinct instants.
InstantNOutcome ==
    op = "instant_n"
      => /\ (out.err = "assert") = ~(1 <= arg.n /\ arg.n <= ts1.totalcount)
            \/ (out.err = "" /\ ~(1 <= arg.n /\ arg.n <= ts1.totalcount) /\ ~out.ret)
         /\ out.err = "" => (out.ret = (arg.n \in 1 .. NumDistinctInstants(ts1)))

\* C22: for n outside 1 .. number of distinct instants (timestamps),
\* temporals_instant_n (temporals_timestamp_n) reports absent without
\* failing an assertion; temporals_timestamp_n succeeds exactly when
\* 1 <= n <= temporals_num_timestamps(S) and then returns the n-th distinct
\* timestamp of S.
C22_NthAbsentOutOfRange ==
    /\ (op = "instant_n" /\ arg.n \notin 1 .. NumDistinctInstants(ts1))
          => (out.err = "" /\ ~out.ret)
    /\ TimestampNExact

\* C23: temporals_make succeeds only if all input sequences have the same
\* value kind and interpolation (and, for spatial kinds, the same spatial
\* reference and dimensionality), so the header of a built set agrees with
\* every one of its sequences.
C23_HeaderAgrees ==
    (op = "make_tagged" /\ out.err = "")
      => \A i \in DOMAIN out.ts.seqs :
            /\ out.ts.seqs[i].valuetypid = out.header.valuetypid
            /\ out.ts.seqs[i].linear = out.header.linear
            /\ out.header.valuetypid \in {"geometry", "geography"}
                  => /\ out.ts.seqs[i].hasz = out.header.hasz
                     /\ out.ts.seqs[i].srid = out.ts.seqs[1].srid

\* What the validity loop does check: order, and for a geometry first
\* sequence the spatial reference and dimensionality of its neighbours.
MakeTaggedChecks ==
    (op = "make_tagged" /\ out.err = "")
      => /\ OrderedSet(out.ts)
         /\ out.header.valuetypid \in {"geometry", "geography"}
               => \A i \in DOMAIN out.ts.seqs :
                     /\ out.ts.seqs[i].hasz = out.header.hasz
                     /\ out.ts.seqs[i].srid = out.ts.seqs[1].srid

\* The sum of the padded sizes of the first n sequences.
RECURSIVE PaddedSum(_, _)
PaddedSum(seqs, n) ==
    IF n = 0 THEN 0 ELSE PaddedSum(seqs, n - 1) + double_pad(VARSIZE(seqs[n]))

\* The bytes of mem at the data addresses from .. from + n - 1.
BytesAt(mem, from, n) == [k \in 1 .. n |-> mem.data[from + k]]

\* The layout of the buffer mem of a set with sequences seqs, but for the
\* entries of the offset table: total size, alignment, the bytes of every
\* sequence where temporals_seq_n looks for them, the box after them and
\* padding everywhere else.
LayoutShape(mem, seqs, bboxsize) ==
    LET count == Len(seqs)
    IN  /\ mem.count = count
        /\ Len(mem.offsets) = count + 1
        /\ mem.offsets[1] = 0
        /\ mem.size = mem.pdata + PaddedSum(seqs, count) + double_pad(bboxsize)
        /\ Len(mem.data) = mem.size - mem.pdata
        /\ mem.pdata = LayoutDataStart(count)
        /\ mem.pdata % 8 = 0
        /\ \A i \in 1 .. count :
              /\ mem.offsets[i] % 8 = 0
              /\ mem.offsets[i] = PaddedSum(seqs, i - 1)
              /\ temporals_seq_n_offset(mem, i - 1) + VARSIZE(seqs[i]) <= Len(mem.data)
              /\ BytesAt(mem, temporals_seq_n_offset(mem, i - 1), VARSIZE(seqs[i]))
                   = SeqBytes(seqs[i])
        /\ bboxsize # 0
              => BytesAt(mem, mem.offsets[count + 1], bboxsize) = BoxBytes(bboxsize)
        /\ \A k \in 1 .. Len(mem.data) :
              \/ mem.data[k] = ZeroByte
              \/ \E i \in 1 .. count :
                    mem.offsets[i] < k /\ k <= mem.offsets[i] + VARSIZE(seqs[i])
              \/ bboxsize # 0 /\ PaddedSum(seqs, count) < k
                              /\ k <= PaddedSum(seqs, count) + bboxsize

LayoutBuilt == op \in {"make_layout", "append_layout"} /\ out.err = ""

\* C30 as stated: offsets[i + 1] = offsets[i] + pad(size of sequence i) for
\* every 0 <= i < count, the last of these entries being offsets[count], and
\* the rest of the layout.
C30_LayoutAllOffsets ==
    LayoutBuilt
      => /\ LayoutShape(out.mem, out.ts.seqs, arg.bboxsize)
         /\ \A i \in 1 .. out.ts.count :
               out.mem.offsets[i + 1]
                 = out.mem.offsets[i] + double_pad(VARSIZE(out.ts.seqs[i]))

\* C30: in every buffer built by temporals_make or temporals_append_instant
\* offsets[0] = 0 and offsets[i + 1] = offsets[i] + pad(size of sequence i)
\* for 0 <= i < count - 1; offsets[count] is the sum of the padded sizes for
\* a kind with a box and is left 0 for a kind without; the total size is
\* header + offset table + padded sequences + padded box; sequences and box
\* do not overlap, every offset is aligned and temporals_seq_n(result, i)
\* finds the bytes of the i-th sequence.
C30_Layout ==
    LayoutBuilt
      => /\ LayoutShape(out.mem, out.ts.seqs, arg.bboxsize)
         /\ \A i \in 1 .. out.ts.count - 1 :
               out.mem.offsets[i + 1]
                 = out.mem.offsets[i] + double_pad(VARSIZE(out.ts.seqs[i]))
         /\ out.mem.offsets[out.ts.count + 1]
              = IF arg.bboxsize # 0 THEN PaddedSum(out.ts.seqs, out.ts.count) ELSE 0

\* A set of two sequences, the first needing padding, for a kind with a box
\* whose size needs padding too.
C30_Witness ==
    /\ LayoutBuilt
    /\ out.ts.count = 2
    /\ arg.bboxsize # 0
    /\ double_pad(arg.bboxsize) # arg.bboxsize
    /\ double_pad(VARSIZE(out.ts.seqs[1])) # VARSIZE(out.ts.seqs[1])
    /\ out.mem.offsets[2] > 0

\* The sequences of ts restricted to a set of atoms of time agree with the
\* result: same time domain, same value at every atom.
RestrictedTo(ts, atoms, res) ==
    /\ SeqsTime(res) = Time(ts) \cap atoms
    /\ \A x \in SeqsTime(res) : ValueAtAtom(res, x) = ValueAtAtom(ts.seqs, x)

PeriodsetTime(ps) == UNION {Cover(ps[k]) : k \in DOMAIN ps}

\* The result of a restriction that returns a sequence set: no error, and
\* either NULL with nothing to return or an ordered set over the atoms.
ExactRestriction(ts, atoms) ==
    /\ out.err = ""
    /\ IF out.ts = NoTS THEN Time(ts) \cap atoms = {}
       ELSE /\ out.ts.count = Len(out.ts.seqs)
            /\ out.ts.count >= 1
            /\ OrderedSet(out.ts)
            /\ RestrictedTo(ts, atoms, out.ts.seqs)

\* C25: temporals_at_period and temporals_at_periodset return a set whose
\* time domain is exactly the time of S inside the period (the period set),
\* with the values of S, or NULL when S has no time there.
C25_AtPeriodExact ==
    /\ (pc = "done" /\ op = "at_period") => ExactRestriction(ts1, Cover(arg.p))
    /\ (pc = "done" /\ op = "at_periodset") => ExactRestriction(ts1, PeriodsetTime(arg.ps))

\* A period set with a period ending inclusively at the exclusive upper
\* bound of a sequence whose successor starts there inclusively, both
\* sequences kept.
C25_Witness ==
    /\ pc = "done" /\ op = "at_periodset"
    /\ ts1.count = 2 /\ Len(arg.ps) = 2
    /\ out.ts # NoTS /\ out.ts.count = 2
    /\ ~ts1.seqs[1].period.upper_inc
    /\ ts1.seqs[2].period.lower_inc
    /\ ts1.seqs[1].period.upper = ts1.seqs[2].period.lower
    /\ arg.ps[1].upper = ts1.seqs[1].period.upper
    /\ arg.ps[1].upper_inc

\* The same case for temporals_at_period.
C25_WitnessPeriod ==
    /\ pc = "done" /\ op = "at_period"
    /\ ts1.count = 2
    /\ out.ts # NoTS /\ out.ts.count = 2
    /\ ~ts1.seqs[1].period.upper_inc
    /\ ts1.seqs[2].period.lower_inc
    /\ arg.p.upper = ts1.seqs[1].period.upper
    /\ arg.p.upper = ts1.seqs[2].period.lower

\* The instants of ts at the timestamps of tset that some sequence contains,
\* in the order of tset.
ExpectedInstants(ts, tset) ==
    Flatten([k \in DOMAIN tset |->
                IF Covered(ts, tset[k])
                THEN <<temporalinst_make(ValueAtAtom(ts.seqs, 2 * tset[k]), tset[k])>>
                ELSE <<>>])

\* C26: temporals_at_timestampset returns exactly one instant, with the
\* value of S, for each timestamp of T that a sequence of S contains, in
\* increasing time order, and NULL when there is none; every iteration of
\* its loop steps the timestamp cursor or the sequence cursor.
C26_AtTimestampsetExact ==
    (pc = "done" /\ op = "at_timestampset")
        => /\ out.insts1 = ExpectedInstants(ts1, arg.tset)
           /\ \A k \in 1 .. Len(out.insts1) - 1 : out.insts1[k].t < out.insts1[k + 1].t
           /\ LET iters == AtTimestampsetLoop(ts1, arg.tset, 0, 0)
              IN  /\ \A k \in DOMAIN iters : iters[k].d # <<0, 0>>
                  /\ Len(iters) <= Len(arg.tset) + ts1.count - 1

\* The general case with a timestamp at the exclusive lower bound of the
\* first sequence (not matched) and timestamps matched in both sequences.
C26_Witness ==
    /\ pc = "done" /\ op = "at_timestampset"
    /\ ts1.count = 2
    /\ ~ts1.seqs[1].period.lower_inc
    /\ arg.tset[1] = ts1.seqs[1].period.lower
    /\ Len(out.insts1) = 2
    /\ Len(arg.tset) = 3
    /\ contains_period_timestamp_internal(ts1.seqs[1].period, out.insts1[1].t)
    /\ contains_period_timestamp_internal(ts1.seqs[2].period, out.insts1[2].t)

\* The pairs of C indexes the loop of intersection_temporals_temporali
\* visits from i, j.
RECURSIVE InstVisited(_, _, _, _)
InstVisited(ts, ti, i, j) ==
    IF ~(i < ts.count /\ j < Len(ti)) THEN {}
    ELSE LET d == InstAdvance(temporals_seq_n(ts, i), ti[j + 1])
         IN  {<<i, j>>} \cup (IF d = <<0, 0>> THEN {}
                              ELSE InstVisited(ts, ti, i + d[1], j + d[2]))

\* A merge loop given by its iterations steps a cursor at every iteration,
\* runs at most n iterations and writes at most slots fragments.
LoopBounded(iters, n, slots) ==
    /\ \A k \in DOMAIN iters : iters[k].d # <<0, 0>>
    /\ Len(iters) <= n
    /\ Len(LoopOutputs(iters)) <= slots

\* C29: every iteration of a merge loop steps at least one cursor, so the
\* loop runs at most count1 + count2 - 1 iterations, and the fragments
\* written fit the allocated array: count1 + count2 slots for set x set,
\* the count of the instant set for set x instant set, count + ps.count -
\* loc1 - loc2 for temporals_at_periodset and count + ps.count for
\* temporals_minus_periodset; temporals_at_period clips at most two
\* sequences.
C29_MergeLoopsBounded ==
    /\ (op \in {"intersection_temporals_temporals", "synchronize_temporals_temporals"}
        /\ overlaps_period_period_internal(temporals_period(ts1), temporals_period(ts2)))
       => LET visited == MergeVisited(ts1, ts2, 0, 0)
          IN  /\ \A v \in visited :
                    MergeAdvance(temporals_seq_n(ts1, v[1]).period,
                                 temporals_seq_n(ts2, v[2]).period) # <<0, 0>>
              /\ Cardinality(visited) <= ts1.count + ts2.count - 1
              /\ (out.ret /\ out.err = "")
                    => /\ out.inter1.count <= ts1.count + ts2.count
                       /\ out.inter2.count <= ts1.count + ts2.count
    /\ (op = "intersection_temporals_temporali"
        /\ overlaps_period_period_internal(temporals_period(ts1), temporali_period(arg.ti)))
       => LET visited == InstVisited(ts1, arg.ti, 0, 0)
          IN  /\ \A v \in visited :
                    InstAdvance(temporals_seq_n(ts1, v[1]), arg.ti[v[2] + 1]) # <<0, 0>>
              /\ Cardinality(visited) <= ts1.count + Len(arg.ti) - 1
              /\ Len(out.insts1) <= Len(arg.ti)
              /\ Len(out.insts2) <= Len(arg.ti)
    /\ (op = "at_periodset" /\ ts1.count > 1
        /\ overlaps_period_period_internal(temporals_period(ts1), periodset_bbox(arg.ps)))
       => LET locs == AtPeriodsetLocs(ts1, arg.ps)
          IN  /\ 0 <= locs[1] /\ locs[1] <= ts1.count
              /\ 0 <= locs[2] /\ locs[2] <= Len(arg.ps)
              /\ LoopBounded(AtPeriodsetLoop(ts1, arg.ps, locs[1], locs[2]),
                             ts1.count + Len(arg.ps) - 1,
                             ts1.count + Len(arg.ps) - locs[1] - locs[2])
    /\ (op = "minus_periodset" /\ ts1.count > 1
        /\ overlaps_period_period_internal(temporals_period(ts1), periodset_bbox(arg.ps)))
       => LET iters == MinusPeriodsetLoop(ts1, arg.ps, 0, 0)
          IN  /\ LoopBounded(iters, ts1.count + Len(arg.ps) - 1, ts1.count + Len(arg.ps))
              /\ Len(LoopOutputs(iters)) + Len(MinusPeriodsetRest(ts1, iters))
                    <= ts1.count + Len(arg.ps)
    /\ (op = "at_period" /\ ts1.count > 1
        /\ overlaps_period_period_internal(temporals_period(ts1), arg.p))
       => AtPeriodClips(ts1, arg.p, AtPeriodLoc(ts1, arg.p)) <= 2

\* temporals_at_periodset runs count + ps.count - 1 iterations.
C29_Witness ==
    /\ pc = "done" /\ op = "at_periodset"
    /\ ts1.count = 2 /\ Len(arg.ps) = 2
    /\ overlaps_period_period_internal(temporals_period(ts1), periodset_bbox(arg.ps))
    /\ Len(AtPeriodsetLoop(ts1, arg.ps, 0, 0)) = 3
    /\ AtPeriodsetLocs(ts1, arg.ps) = <<0, 0>>

\* temporals_at_period clips two sequences.
C29_WitnessClips ==
    /\ pc = "done" /\ op = "at_period" /\ ts1.count = 2
    /\ overlaps_period_period_internal(temporals_period(ts1), arg.p)
    /\ AtPeriodClips(ts1, arg.p, AtPeriodLoc(ts1, arg.p)) = 2

\* The value box misses: the pre-test of the operation answers by itself.
BoxMiss ==
    CASE op \in {"at_value", "minus_value"}
            -> ~contains_tbox_tbox_internal(ts1.bbox, number_to_box(arg.value))
      [] op \in {"at_range", "minus_range"}
            -> ~overlaps_tbox_tbox_internal(ts1.bbox, range_to_tbox_internal(arg.range))
      [] op = "ever_eq"
            -> datum_lt(arg.value, ts1.bbox.xmin) \/ datum_lt(ts1.bbox.xmax, arg.value)
      [] op \in {"ever_lt", "ever_le"} -> datum_lt(arg.value, ts1.bbox.xmin)
      [] op \in {"always_lt", "always_le"} -> datum_lt(arg.value, ts1.bbox.xmax)
      [] op = "always_eq" -> TRUE
      [] OTHER -> FALSE

\* The outcome of the restriction without its pre-test: the singleton case
\* and the loop over the sequences.
LoopOutcome ==
    CASE op = "at_value"
            -> IF ts1.count = 1 THEN temporalseq_at_value(temporals_seq_n(ts1, 0), arg.value)
               ELSE temporals_make_free(AtValueLoop(ts1, arg.value, 0), TRUE)
      [] op = "minus_value"
            -> IF ts1.count = 1 THEN temporalseq_minus_value(temporals_seq_n(ts1, 0), arg.value)
               ELSE temporals_make_free(MinusValueLoop(ts1, arg.value, 0), TRUE)
      [] op = "at_range" -> AtRangeScan(ts1, arg.range)
      [] op = "minus_range" -> MinusRangeScan(ts1, arg.range)

\* The boolean of the comparison for a kind without a box: the loop alone.
LoopAnswer ==
    CASE op = "ever_eq" -> temporals_ever_eq(ts1, arg.value, FALSE)
      [] op = "always_eq" -> temporals_always_eq(ts1, arg.value, FALSE)
      [] op = "ever_lt" -> temporals_ever_lt(ts1, arg.value, FALSE)
      [] op = "ever_le" -> temporals_ever_le(ts1, arg.value, FALSE)
      [] op = "always_lt" -> temporals_always_lt(ts1, arg.value, FALSE)
      [] op = "always_le" -> temporals_always_le(ts1, arg.value, FALSE)

Normalized(ts) == temporalseqarr_normalize(ts.seqs) = ts.seqs

C27_WitnessRange ==
    /\ pc = "done" /\ op = "minus_range" /\ BoxMiss
    /\ ts1.count = 2 /\ Normalized(ts1)

\* The restriction operators that return a sequence set.
SetRestrictions ==
    {"at_value", "minus_value", "at_values", "minus_values", "at_range", "minus_range",
     "at_ranges", "minus_ranges", "minus_timestamp", "minus_timestampset", "at_period",
     "minus_period", "at_periodset", "minus_periodset"}

\* A sequence as the builder accepts it: a period with its instants from
\* the lower to the upper bound.
WellFormedSeq(seq) ==
    /\ seq.period \in AllPeriods
    /\ Len(seq.insts) >= 1
    /\ seq.insts[1].t = seq.period.lower
    /\ Last(seq.insts).t = seq.period.upper
    /\ \A k \in 1 .. Len(seq.insts) - 1 : seq.insts[k].t < seq.insts[k + 1].t

\* A valid sequence set: at least one sequence, counted, time-ordered.
ValidSet(ts) ==
    /\ ts.count >= 1
    /\ ts.count = Len(ts.seqs)
    /\ \A k \in DOMAIN ts.seqs : WellFormedSeq(ts.seqs[k])
    /\ OrderedSet(ts)
    /\ ts.totalcount = InstantCount(ts)

C21_WitnessValues ==
    /\ pc = "done" /\ op = "minus_ranges"
    /\ ts1.count = 2 /\ ValidSet(ts1)
    /\ out.err = "" /\ out.ts = NoTS

====
